---- MODULE Spec2Model ----
(***************************************************************************)
(* A model of the event pipeline of lgh: the synchronous Bus               *)
(* (internal/event/bus.go), the asynchronous FileLogger                    *)
(* (internal/event/logger.go), the Broker (internal/event/broker.go), the  *)
(* server's shutdown path and its debug-injection endpoint (package        *)
(* server).                                                                *)
(*                                                                         *)
(* Goroutines are modelled as threads with a program counter; a step of a  *)
(* thread is one action.  The two channel capacities and the rotation      *)
(* threshold of the source are scaled down (QueueCap, ClientCap,           *)
(* MaxLogSize) so that "full" and "threshold reached" happen within a few  *)
(* events.                                                                 *)
(***************************************************************************)
EXTENDS Integers, Sequences, FiniteSets, TLC

\* ------------------------------------------------------------------ bounds
\* Number of publisher goroutines (concurrent callers of event.Publish).
MaxThreads == 2
\* Number of events created by event.New during one run.
MaxEvents == 3
\* Number of handlers registered on the Bus during one run.
MaxHandlers == 3
\* Capacity of FileLogger.queue; the source uses 100 (logger.go:61).
QueueCap == 2
\* Capacity of a Broker client channel; the source uses 100 (broker.go:47).
ClientCap == 1
\* Number of client channels ever created by SubscribeClient.
MaxClients == 2
\* Rotation threshold in size units; the source uses 10 MiB (logger.go:33).
\* A complete line has 2 units (ChunkSize).
MaxLogSize == 4
\* Last value of the wall clock (seconds).
MaxClock == 1
\* Bits of the significand of a floating-point number; the source's float64
\* has 53.
MantissaBits == 2
\* Number of requests sent to /debug/events during one run.
MaxRequests == 2
MaxLines == 3
MaxLast == 2
MaxSegs == 3

Threads == 1..MaxThreads
Chans == 1..MaxClients

VARIABLES
    handlers,    \* Bus.handlers: sequence of handler kinds, in registration order
    th,          \* per publisher goroutine: its position inside Publish / Broadcast
    nextId,      \* number of events created so far (event ids are 1..nextId)
    callLog,     \* history, per event id: the plain handlers invoked with it, in the order they ran
    returned,    \* history: <<event id, handlers registered at call time>> of returned Publish calls
    crashed,     \* history: threads to whose caller a handler panic propagated
    queue,       \* FileLogger.queue: buffered channel of events
    queueClosed, \* close(l.queue) has run
    worker,      \* FileLogger.worker goroutine: [pc, cur, rot]
    file,        \* FileLogger.file: [ino, open], or NoHandle
    fs,          \* directory: path -> inode (0: no such file)
    inodes,      \* inode contents: sequence (by inode number) of sequences of chunks
    now,         \* wall clock, seconds
    faulty,      \* the file system is unreliable: its calls may fail
    handleLog,   \* history: every FileLogger.Handle call, [id, res]
    wrote,       \* history: every pass of the worker's loop, [id, rot, out]
    clients,     \* Broker.clients: set of registered channels
    chanBuf,     \* per channel: its buffer
    chanClosed,  \* per channel: close(ch) has run
    made,        \* number of channels created so far
    recv,        \* per channel: the event its reader received last (`evt` of handleIPCConnection)
    missed,      \* history, per channel: id of the event skipped last because the buffer was full (0: none)
    closer,      \* the goroutine running event.Shutdown / FileLogger.Close: pc
    proc,        \* the server process: main and signal goroutine, [main, sig, alive]
    http,        \* the last request answered by /debug/events: [req, status]
    replay,      \* the `lgh replay` process: its flags, position, selection and outcome
    web,         \* the request in the gateway's handler chain, and how far it got
    registry,    \* the mappings file, the repositories on disk, and the CLI processes at work
    ipc          \* the IPC socket: endpoint, listener, and the connections' goroutines

vars == <<handlers, th, nextId, callLog, returned, crashed, queue, queueClosed,
          worker, file, fs, inodes, now, faulty, handleLog, wrote, clients, chanBuf,
          chanClosed, made, recv, missed, closer, proc, http, replay, web,
          registry, ipc>>

busVars == <<handlers, th, nextId, callLog, returned, crashed>>
loggerVars == <<queue, queueClosed, worker, file, fs, inodes, faulty, handleLog, wrote, closer>>
brokerVars == <<clients, chanBuf, chanClosed, made, recv, missed>>
otherVars == <<now, proc, http, replay, web, registry, ipc>>

\* ------------------------------------------------------------------ events
\* Type constants of the event package.
RepoAdded == "repo.added"
GitPush == "git.push"

\* A payload is nil or a map; a map is a set of <<key, value>> pairs with
\* distinct keys.
NilPayload == [nil |-> TRUE, kv |-> {}]
MapPayload(kv) == [nil |-> FALSE, kv |-> kv]

\* event.New: a fresh id (uuid) and the current time.
New(id, eventType, repoName, payload, t) ==
    [id |-> id, type |-> eventType, repo |-> repoName, payload |-> payload, ts |-> t]

\* ------------------------------------------------------------------ the Bus
\* Handler kinds.  "plain" returns, "panicky" panics; "logger" is
\* FileLogger.Handle and "broker" the closure StartBroker registers.
PlainKinds == {"plain", "panicky"}

Idle == [pc |-> "idle", evt |-> New(0, "", "", NilPayload, 0), i |-> 0, todo |-> {}, kind |-> "none"]

\* Threads that hold the read lock of the Bus (inside Bus.publish).
InPublish(t) == th[t].kind = "publish" /\ th[t].pc \in {"pub", "bcast"}

\* The recover wrapper around each handler call: what Bus.publish does with
\* the outcome of a handler body ("ok" or "panic").
IsolatedNoRecover(outcome) == IF outcome = "panic" THEN "propagate" ELSE "next"

Isolated(outcome) == "next"

\* event.Subscribe: appends under the write lock, which waits for readers.
Subscribe(h) ==
    /\ Len(handlers) < MaxHandlers
    /\ \A t \in Threads : ~InPublish(t)
    /\ handlers' = Append(handlers, h)
    /\ UNCHANGED <<th, nextId, callLog, returned, crashed>>
    /\ UNCHANGED <<loggerVars, brokerVars, otherVars>>

\* event.Publish up to the first handler: event.New, then the read lock.
\* Goroutines are interchangeable: the idle thread of least number runs it.
PublishBegin(t, eventType, repoName, payload) ==
    /\ th[t].pc = "idle"
    /\ \A u \in Threads : u < t => th[u].pc # "idle"
    /\ nextId < MaxEvents
    /\ nextId' = nextId + 1
    /\ th' = [th EXCEPT ![t] = [pc |-> "pub",
                                evt |-> New(nextId + 1, eventType, repoName, payload, now),
                                i |-> 0, todo |-> {}, kind |-> "publish"]]
    /\ UNCHANGED <<handlers, callLog, returned, crashed>>
    /\ UNCHANGED <<loggerVars, brokerVars, otherVars>>

\* The thread is about to call handler number i+1, of kind k.
AtHandler(t, k) ==
    /\ th[t].kind = "publish"
    /\ th[t].pc = "pub"
    /\ th[t].i < Len(handlers)
    /\ handlers[th[t].i + 1] = k

\* A loop with one recover around all handlers: a panic ends the call
\* quietly, the handlers that follow are not run.
AfterHandlerEndsLoop(t, outcome) ==
    IF outcome = "ok"
    THEN /\ th' = [th EXCEPT ![t].i = @ + 1]
         /\ UNCHANGED crashed
    ELSE /\ th' = [th EXCEPT ![t] = Idle]
         /\ UNCHANGED crashed

\* What the loop of Bus.publish does after a handler body ended with `outcome`.
AfterHandler(t, outcome) ==
    IF Isolated(outcome) = "next"
    THEN /\ th' = [th EXCEPT ![t].i = @ + 1]
         /\ UNCHANGED crashed
    ELSE /\ th' = [th EXCEPT ![t] = Idle]
         /\ crashed' = crashed \cup {t}

\* One pass of the loop of Bus.publish for a plain or a panicking handler.
InvokePlain(t) ==
    /\ \E k \in PlainKinds :
          /\ AtHandler(t, k)
          /\ callLog' = [callLog EXCEPT ![th[t].evt.id] = Append(@, th[t].i + 1)]
          /\ AfterHandler(t, IF k = "panicky" THEN "panic" ELSE "ok")
    /\ UNCHANGED <<handlers, nextId, returned>>
    /\ UNCHANGED <<loggerVars, brokerVars, otherVars>>

\* Bus.publish returns: the loop is over, the read lock is released.
PublishReturn(t) ==
    /\ th[t].kind = "publish"
    /\ th[t].pc = "pub"
    /\ th[t].i = Len(handlers)
    /\ returned' = returned \cup {<<th[t].evt.id, Len(handlers)>>}
    /\ th' = [th EXCEPT ![t] = Idle]
    /\ UNCHANGED <<handlers, nextId, callLog, crashed>>
    /\ UNCHANGED <<loggerVars, brokerVars, otherVars>>

\* ------------------------------------------------------------------ the log files
\* The event directory holds the canonical file events.jsonl and the rotated
\* files events.jsonl.<timestamp>; a directory entry is an inode number, 0
\* when the path does not exist.  inodes[n] is the content of inode n.
\* A content is a sequence of chunks [id, k]: "line" is the JSON of event id
\* followed by a newline, "data" is the JSON without the newline, "part" is a
\* proper prefix of the JSON.
NoHandle == [ino |-> 0, open |-> FALSE]

ChunkSize(c) == IF c.k = "line" THEN 2 ELSE 1

RECURSIVE Size(_)
Size(content) ==
    IF content = <<>> THEN 0 ELSE ChunkSize(Head(content)) + Size(Tail(content))

\* The newline-terminated lines of a content: each line is the sequence of
\* chunks up to and including a chunk that ends with a newline.
RECURSIVE LinesFrom(_, _)
LinesFrom(content, acc) ==
    IF content = <<>> THEN <<>>
    ELSE IF Head(content).k = "line"
         THEN <<Append(acc, Head(content))>> \o LinesFrom(Tail(content), <<>>)
         ELSE LinesFrom(Tail(content), Append(acc, Head(content)))

Lines(content) == LinesFrom(content, <<>>)

\* The bytes after the last newline.
RECURSIVE Rest(_, _)
Rest(content, acc) ==
    IF content = <<>> THEN acc
    ELSE IF Head(content).k = "line" THEN Rest(Tail(content), <<>>)
         ELSE Rest(Tail(content), Append(acc, Head(content)))

\* Paths that exist, as inode numbers.
LiveInodes == ({fs.log} \cup {fs.bak[s] : s \in 0..MaxClock}) \ {0}

\* ------------------------------------------------------------------ FileLogger
\* The select of FileLogger.Handle: it has a default case, so it is ready
\* whatever the queue holds.
HandleReady(q) == TRUE

\* The select of FileLogger.Handle on an open queue: the send case when the
\* buffer has room, the default case (drop) otherwise.
EnqueueUnbounded(q, e) == [res |-> "accepted", q |-> Append(q, e)]

Enqueue(q, e) ==
    IF Len(q) < QueueCap THEN [res |-> "accepted", q |-> Append(q, e)]
    ELSE [res |-> "dropped", q |-> q]

\* FileLogger.Handle as a Bus handler.  A send on a closed channel panics.
InvokeLogger(t) ==
    /\ AtHandler(t, "logger")
    /\ HandleReady(queue)
    /\ IF queueClosed
       THEN /\ handleLog' = Append(handleLog, [id |-> th[t].evt.id, res |-> "panic"])
            /\ UNCHANGED queue
            /\ AfterHandler(t, "panic")
       ELSE LET r == Enqueue(queue, th[t].evt) IN
            /\ handleLog' = Append(handleLog, [id |-> th[t].evt.id, res |-> r.res])
            /\ queue' = r.q
            /\ AfterHandler(t, "ok")
    /\ UNCHANGED <<handlers, nextId, callLog, returned>>
    /\ UNCHANGED <<queueClosed, worker, file, fs, inodes, faulty, wrote, closer>>
    /\ UNCHANGED <<brokerVars, otherVars>>

\* FileLogger.worker, `for e := range l.queue`: receive the next event.
WorkerRecvNewest ==
    /\ worker.pc = "recv"
    /\ queue # <<>>
    /\ worker' = [pc |-> "rotate", cur |-> queue[Len(queue)], rot |-> <<"none", "none">>]
    /\ queue' = SubSeq(queue, 1, Len(queue) - 1)
    /\ UNCHANGED <<queueClosed, file, fs, inodes, faulty, handleLog, wrote, closer>>
    /\ UNCHANGED <<busVars, brokerVars, otherVars>>

WorkerRecv ==
    /\ worker.pc = "recv"
    /\ queue # <<>>
    /\ worker' = [pc |-> "rotate", cur |-> Head(queue), rot |-> <<"none", "none">>]
    /\ queue' = Tail(queue)
    /\ UNCHANGED <<queueClosed, file, fs, inodes, faulty, handleLog, wrote, closer>>
    /\ UNCHANGED <<busVars, brokerVars, otherVars>>

\* FileLogger.worker: the queue is closed and drained, the loop ends
\* (wg.Done).
WorkerExit ==
    /\ worker.pc = "recv"
    /\ queue = <<>>
    /\ queueClosed
    /\ worker' = [worker EXCEPT !.pc = "done"]
    /\ UNCHANGED <<queue, queueClosed, file, fs, inodes, faulty, handleLog, wrote, closer>>
    /\ UNCHANGED <<busVars, brokerVars, otherVars>>

\* The outcomes a file-system call can have: it can fail only while the file
\* system is unreliable.
Outcomes == IF faulty THEN {"ok", "fail"} ELSE {"ok"}

\* rotateIfNeeded's decision: Stat fails on a closed handle (the error is
\* returned, nothing is rotated); otherwise rotate when the size has reached
\* the threshold.
NeedsRotation(f) == f.open /\ Size(inodes[f.ino]) >= MaxLogSize

\* os.Rename(l.filePath, backupPath): the entry moves to the timestamped
\* path, replacing what that path named.
Rename(dir, stamp) ==
    [log |-> 0, bak |-> [dir.bak EXCEPT ![stamp] = dir.log]]

\* FileLogger.rotateIfNeeded, called by the worker before each write.
WorkerRotate ==
    /\ worker.pc = "rotate"
    /\ IF ~NeedsRotation(file)
       THEN /\ worker' = [worker EXCEPT !.pc = "write",
                                        !.rot = IF file.open THEN <<"none", "none">>
                                               ELSE <<"staterr", "staterr">>]
            /\ UNCHANGED <<file, fs, inodes>>
       ELSE \E ren \in Outcomes, opn \in Outcomes :
            LET dir == IF ren = "ok" /\ fs.log # 0 THEN Rename(fs, now) ELSE fs
            IN
            /\ worker' = [worker EXCEPT !.pc = "write", !.rot = <<ren, opn>>]
            /\ IF opn = "fail"
               THEN \* the old handle was closed and stays in l.file
                    /\ file' = [file EXCEPT !.open = FALSE]
                    /\ fs' = dir
                    /\ UNCHANGED inodes
               ELSE IF dir.log = 0
               THEN \* O_CREATE makes a fresh file
                    /\ inodes' = Append(inodes, <<>>)
                    /\ fs' = [dir EXCEPT !.log = Len(inodes) + 1]
                    /\ file' = [ino |-> Len(inodes) + 1, open |-> TRUE]
               ELSE \* the path still names the old file
                    /\ UNCHANGED inodes
                    /\ fs' = dir
                    /\ file' = [ino |-> dir.log, open |-> TRUE]
    /\ UNCHANGED <<queue, queueClosed, faulty, handleLog, wrote, closer>>
    /\ UNCHANGED <<busVars, brokerVars, otherVars>>

\* What `l.file.Write(data)` followed, on success, by `WriteString("\n")`
\* leaves in the file, per outcome: "ok" both succeed, "nonl" the newline
\* write fails, "part" Write fails after a prefix, "none" Write fails at once.
Appended(id, out) ==
    IF out = "ok" THEN <<[id |-> id, k |-> "line"]>>
    ELSE IF out = "nonl" THEN <<[id |-> id, k |-> "data"]>>
    ELSE IF out = "part" THEN <<[id |-> id, k |-> "part"]>>
    ELSE <<>>

WriteOutcomes ==
    IF ~file.open THEN {"none"}
    ELSE IF faulty THEN {"ok", "nonl", "part", "none"}
    ELSE {"ok"}

\* FileLogger.worker: json.Marshal and the write to the current handle.
WorkerWriteOrStop ==
    /\ worker.pc = "write"
    /\ \E out \in WriteOutcomes :
          /\ inodes' = IF file.open
                       THEN [inodes EXCEPT ![file.ino] = @ \o Appended(worker.cur.id, out)]
                       ELSE inodes
          /\ wrote' = Append(wrote, [id |-> worker.cur.id, rot |-> worker.rot, out |-> out])
          /\ worker' = [worker EXCEPT !.pc = IF out = "ok" THEN "recv" ELSE "done"]
    /\ UNCHANGED <<queue, queueClosed, file, fs, faulty, handleLog, closer>>
    /\ UNCHANGED <<busVars, brokerVars, otherVars>>

WorkerWrite ==
    /\ worker.pc = "write"
    /\ \E out \in WriteOutcomes :
          /\ inodes' = IF file.open
                       THEN [inodes EXCEPT ![file.ino] = @ \o Appended(worker.cur.id, out)]
                       ELSE inodes
          /\ wrote' = Append(wrote, [id |-> worker.cur.id, rot |-> worker.rot, out |-> out])
    /\ worker' = [worker EXCEPT !.pc = "recv"]
    /\ UNCHANGED <<queue, queueClosed, file, fs, faulty, handleLog, closer>>
    /\ UNCHANGED <<busVars, brokerVars, otherVars>>

\* FileLogger.Close, first part: once.Do(close(l.queue)).
CloseBegin ==
    /\ closer = "idle"
    /\ closer' = "wait"
    /\ queueClosed' = TRUE
    /\ UNCHANGED <<queue, worker, file, fs, inodes, faulty, handleLog, wrote>>
    /\ UNCHANGED <<busVars, brokerVars, otherVars>>

\* wg.Wait() lets Close go on once the worker has ended.
WaitDoneAlways(w) == TRUE

WaitDone(w) == w.pc = "done"

\* FileLogger.Close, second part: after wg.Wait, close the file and set
\* l.file to nil.
CloseEnd ==
    /\ closer = "wait"
    /\ WaitDone(worker)
    /\ closer' = "closed"
    /\ file' = NoHandle
    /\ UNCHANGED <<queue, queueClosed, worker, fs, inodes, faulty, handleLog, wrote>>
    /\ UNCHANGED <<busVars, brokerVars, otherVars>>

\* ------------------------------------------------------------------ the Broker
\* The select of Broker.Broadcast has a default case: it is ready whatever
\* the client's buffer holds.
SendReadyBlocking(buf) == Len(buf) < ClientCap

SendReady(buf) == TRUE

\* The select of Broker.Broadcast for one client: the send case when the
\* buffer has room, the default case (skip) otherwise.
ClientSend(buf, e) ==
    IF Len(buf) < ClientCap THEN [ok |-> TRUE, buf |-> Append(buf, e)]
    ELSE [ok |-> FALSE, buf |-> buf]

\* Threads that hold the read lock of the Broker (inside Broker.Broadcast).
InBroadcast(t) == th[t].pc = "bcast"

\* event.SubscribeClient: a new buffered channel, registered under the
\* write lock.
SubscribeClient ==
    /\ made < MaxClients
    /\ \A t \in Threads : ~InBroadcast(t)
    /\ made' = made + 1
    /\ clients' = clients \cup {made + 1}
    /\ UNCHANGED <<chanBuf, chanClosed, recv, missed>>
    /\ UNCHANGED <<busVars, loggerVars, otherVars>>

\* event.UnsubscribeClient: if the channel is registered, delete and close it.
UnsubscribeClientKeepOpen(c) ==
    /\ c \in 1..made
    /\ \A t \in Threads : ~InBroadcast(t)
    /\ clients' = clients \ {c}
    /\ UNCHANGED <<chanClosed, chanBuf, made, recv, missed>>
    /\ UNCHANGED <<busVars, loggerVars, otherVars>>

\* UnsubscribeClient without the write lock: it runs while a Broadcast
\* ranges over the subscribers.
UnsubscribeClientUnlocked(c) ==
    /\ c \in 1..made
    /\ IF c \in clients
       THEN /\ clients' = clients \ {c}
            /\ chanClosed' = [chanClosed EXCEPT ![c] = TRUE]
       ELSE UNCHANGED <<clients, chanClosed>>
    /\ UNCHANGED <<chanBuf, made, recv, missed>>
    /\ UNCHANGED <<busVars, loggerVars, otherVars>>

UnsubscribeClient(c) ==
    /\ c \in 1..made
    /\ \A t \in Threads : ~InBroadcast(t)
    /\ IF c \in clients
       THEN /\ clients' = clients \ {c}
            /\ chanClosed' = [chanClosed EXCEPT ![c] = TRUE]
       ELSE UNCHANGED <<clients, chanClosed>>
    /\ UNCHANGED <<chanBuf, made, recv, missed>>
    /\ UNCHANGED <<busVars, loggerVars, otherVars>>

\* handleIPCConnection, `for evt := range ch`: the reader of a channel
\* receives the next pending event (and encodes it to its connection).
ClientRead(c) ==
    /\ c \in 1..made
    /\ chanBuf[c] # <<>>
    /\ recv' = [recv EXCEPT ![c] = Head(chanBuf[c])]
    /\ chanBuf' = [chanBuf EXCEPT ![c] = Tail(@)]
    /\ UNCHANGED <<clients, chanClosed, made, missed>>
    /\ UNCHANGED <<busVars, loggerVars, otherVars>>

\* The Bus handler registered by StartBroker calls Broker.Broadcast: take
\* the read lock and start ranging over b.clients.
BroadcastBegin(t) ==
    /\ AtHandler(t, "broker")
    /\ th' = [th EXCEPT ![t].pc = "bcast", ![t].todo = clients]
    /\ UNCHANGED <<handlers, nextId, callLog, returned, crashed>>
    /\ UNCHANGED <<loggerVars, brokerVars, otherVars>>

\* Whether Broadcast keeps a client whose buffer is full (the source only
\* skips it).
KeepsClientDropSlow(ok) == ok

KeepsClient(ok) == TRUE

\* Broker.Broadcast: one pass of the loop, for client c.
BroadcastSend(t, c) ==
    /\ th[t].pc = "bcast"
    /\ c \in th[t].todo
    /\ SendReady(chanBuf[c])
    /\ LET r == ClientSend(chanBuf[c], th[t].evt) IN
       /\ chanBuf' = [chanBuf EXCEPT ![c] = r.buf]
       /\ missed' = IF r.ok THEN missed
                    ELSE [missed EXCEPT ![c] = th[t].evt.id]
       /\ clients' = IF KeepsClient(r.ok) THEN clients ELSE clients \ {c}
    /\ th' = [th EXCEPT ![t].todo = @ \ {c}]
    /\ UNCHANGED <<chanClosed, made, recv>>
    /\ UNCHANGED <<handlers, nextId, callLog, returned, crashed>>
    /\ UNCHANGED <<loggerVars, otherVars>>

\* Broker.Broadcast returns to Bus.publish: the read lock is released.
BroadcastEnd(t) ==
    /\ th[t].kind = "publish"
    /\ th[t].pc = "bcast"
    /\ th[t].todo = {}
    /\ th' = [th EXCEPT ![t].pc = "pub", ![t].i = @ + 1]
    /\ UNCHANGED <<handlers, nextId, callLog, returned, crashed>>
    /\ UNCHANGED <<loggerVars, brokerVars, otherVars>>

\* The wall clock advances by a second.
Tick ==
    /\ now < MaxClock
    /\ now' = now + 1
    /\ UNCHANGED <<proc, http, replay, web, registry, ipc>>
    /\ UNCHANGED <<busVars, loggerVars, brokerVars>>

\* ------------------------------------------------------------------ initial states
\* No request yet.
NoReq == [method |-> "", remote |-> [form |-> "none", host |-> ""],
          body |-> [valid |-> FALSE, evt |-> Idle.evt]]

\* The state after construction: NewFileLogger has opened (created) the
\* canonical file and started the worker; the Broker has no client; `hs` are
\* the handlers registered at start-up, `f` whether the file system is
\* unreliable.
\* `lgh replay` has not been started.
NoReplay == [pc |-> "off", last |-> 0, type |-> "", sel |-> <<>>, i |-> 0,
             posted |-> <<>>, ok |-> 0, out |-> "none"]

\* No request is in the handler chain.
NoWeb == [pc |-> "idle"]

\* No CLI command has run: the registry is left alone.
NoRegistry == [pc |-> "off"]

\* The IPC socket is left alone.
NoIpc == [pc |-> "off"]

InitWith(hs, f) ==
    /\ handlers = hs
    /\ th = [t \in Threads |-> Idle]
    /\ nextId = 0
    /\ callLog = [id \in 1..MaxEvents |-> <<>>]
    /\ returned = {}
    /\ crashed = {}
    /\ queue = <<>>
    /\ queueClosed = FALSE
    /\ worker = [pc |-> "recv", cur |-> Idle.evt, rot |-> <<"none", "none">>]
    /\ file = [ino |-> 1, open |-> TRUE]
    /\ fs = [log |-> 1, bak |-> [s \in 0..MaxClock |-> 0]]
    /\ inodes = << <<>> >>
    /\ now = 0
    /\ faulty = f
    /\ handleLog = <<>>
    /\ wrote = <<>>
    /\ clients = {}
    /\ chanBuf = [c \in Chans |-> <<>>]
    /\ chanClosed = [c \in Chans |-> FALSE]
    /\ made = 0
    /\ recv = [c \in Chans |-> Idle.evt]
    /\ missed = [c \in Chans |-> 0]
    /\ closer = "idle"
    /\ proc = [main |-> "serving", sig |-> "waiting", alive |-> TRUE, atSig |-> {}]
    /\ http = [t \in Threads |-> [req |-> NoReq, status |-> 0]]
    /\ replay = NoReplay
    /\ web = NoWeb
    /\ registry = NoRegistry
    /\ ipc = NoIpc

\* ------------------------------------------------------------------ the Bus alone
\* Handlers are subscribed and events published in any order, by concurrent
\* goroutines; the handlers are plain functions, some of which panic.
InitBus == InitWith(<<>>, FALSE)

NextBus ==
    \/ \E h \in PlainKinds : Subscribe(h)
    \/ \E t \in Threads : PublishBegin(t, GitPush, "demo", NilPayload)
    \/ \E t \in Threads : InvokePlain(t)
    \/ \E t \in Threads : PublishReturn(t)

SpecBus == InitBus /\ [][NextBus]_vars

\* The handler numbers invoked for event id, in the order they ran.
CallsOf(log, id) == log[id]

UpTo(n) == [k \in 1..n |-> k]

\* C1: a Publish that has returned has invoked every handler registered
\* before the call exactly once, in registration order (handlers 1..n, n the
\* number registered at call time); while it runs it has invoked a prefix of
\* them in that order; a panicking handler stops neither the later handlers
\* nor reaches the caller (no publisher ever crashes).
C1_PublishInvokesAll ==
    /\ crashed = {}
    /\ \A r \in returned : CallsOf(callLog, r[1]) = UpTo(r[2])
    /\ \A t \in Threads :
          th[t].pc = "pub" => CallsOf(callLog, th[t].evt.id) = UpTo(th[t].i)

\* A Publish has returned although a handler that panics was registered
\* before a handler that returns, and both ran.
C1_Witness ==
    \E r \in returned :
        /\ r[2] >= 2
        /\ \E i, j \in 1..Len(handlers) :
              i < j /\ j <= r[2] /\ handlers[i] = "panicky" /\ handlers[j] = "plain"
        /\ CallsOf(callLog, r[1]) = UpTo(r[2])

\* ------------------------------------------------------------------ the Logger
\* FileLogger.Handle is the only Bus handler; goroutines publish
\* concurrently, the worker drains the queue, and Close may be called at any
\* moment.  The file system is reliable.
InitLogger == InitWith(<<"logger">>, FALSE)

NextLogger ==
    \/ \E t \in Threads : PublishBegin(t, GitPush, "demo", NilPayload)
    \/ \E t \in Threads : InvokeLogger(t)
    \/ \E t \in Threads : PublishReturn(t)
    \/ WorkerRecv
    \/ WorkerRotate
    \/ WorkerWrite
    \/ WorkerExit
    \/ CloseBegin
    \/ CloseEnd

SpecLogger == InitLogger /\ [][NextLogger]_vars

\* An unreliable file system (any Rename, OpenFile or Write may fail) and a
\* running clock, with one publishing goroutine.
InitLoggerFaults == InitWith(<<"logger">>, TRUE)

NextLoggerFaults ==
    \/ PublishBegin(1, GitPush, "demo", NilPayload)
    \/ InvokeLogger(1)
    \/ PublishReturn(1)
    \/ WorkerRecv
    \/ WorkerRotate
    \/ WorkerWrite
    \/ WorkerExit
    \/ CloseBegin
    \/ CloseEnd
    \/ Tick

SpecLoggerFaults == InitLoggerFaults /\ [][NextLoggerFaults]_vars

\* Thread t completes a call of FileLogger.Handle in this step.
HandleStep(t) == AtHandler(t, "logger") /\ th'[t] # th[t]

\* The content of every file of the event directory, by inode.
LogState == <<fs, inodes>>

Accepted == {handleLog[k].id : k \in {j \in 1..Len(handleLog) : handleLog[j].res = "accepted"}}

Dropped == {handleLog[k].id : k \in {j \in 1..Len(handleLog) : handleLog[j].res = "dropped"}}

\* Ids of the events the worker has handed to a file write.
Written == {wrote[k].id : k \in 1..Len(wrote)}

\* Every inode ever created in the event directory.
Inodes == 1..Len(inodes)

RECURSIVE SumLines(_)
SumLines(S) ==
    IF S = {} THEN 0
    ELSE LET n == CHOOSE x \in S : TRUE IN Len(Lines(inodes[n])) + SumLines(S \ {n})

\* A newline-terminated line that is the complete JSON of one accepted event.
WholeLine(l) == Len(l) = 1 /\ l[1].k = "line" /\ l[1].id \in Accepted

\* C5: the log never holds more lines than there were Handle calls, every
\* line is the complete JSON of exactly one accepted event followed by a
\* newline, and no file ends in, or holds, a truncated or merged line.
C5_LinesWhole ==
    /\ SumLines(Inodes) <= Len(handleLog)
    /\ \A n \in Inodes :
          /\ \A k \in 1..Len(Lines(inodes[n])) : WholeLine(Lines(inodes[n])[k])
          /\ Rest(inodes[n], <<>>) = <<>>

AtThreshold(k) == wrote[k].rot[1] \in {"ok", "fail"}

\* The line of every event handled before the k-th, in the order handled.
EarlierLines(k) == [j \in 1..(k - 1) |-> [id |-> wrote[j].id, k |-> "line"]]

\* C8: once the file has reached the threshold, the next event handled is
\* the first line of a fresh file at the canonical path, the file that
\* reached the threshold is kept under a timestamped name with its earlier
\* lines intact, and the lines of both files add up to the events handled.
C8_RotationKeepsAll ==
    LET k == Len(wrote) IN
    (k > 0 /\ AtThreshold(k) /\ \A j \in 1..(k - 1) : ~AtThreshold(j)) =>
        /\ fs.log # 0
        /\ inodes[fs.log] = <<[id |-> wrote[k].id, k |-> "line"]>>
        /\ \E s \in 0..MaxClock :
              /\ fs.bak[s] \notin {0, fs.log}
              /\ inodes[fs.bak[s]] = EarlierLines(k)
              /\ Len(Lines(inodes[fs.bak[s]])) + Len(Lines(inodes[fs.log])) = k

\* ------------------------------------------------------------------ the pipeline
\* The Bus with the Logger and the Broker as its handlers, as the server
\* runs it: a goroutine publishes, the worker writes at its own pace, IPC
\* connections subscribe and read at their own pace, or not at all.
InitPipeline == InitWith(<<"logger", "broker">>, FALSE)

\* A step of goroutine t inside event.Publish.
PublisherStep(t) ==
    \/ InvokeLogger(t)
    \/ BroadcastBegin(t)
    \/ \E c \in Chans : BroadcastSend(t, c)
    \/ BroadcastEnd(t)
    \/ PublishReturn(t)

NextPipeline ==
    \/ PublishBegin(1, GitPush, "demo", NilPayload)
    \/ PublisherStep(1)
    \/ WorkerRecv
    \/ WorkerRotate
    \/ WorkerWrite
    \/ SubscribeClient
    \/ \E c \in Chans : ClientRead(c)

SpecPipeline == InitPipeline /\ [][NextPipeline]_vars

\* The number of steps goroutine t has left, at most, until its Publish
\* call returns.
StepsLeft(t) ==
    IF th[t].pc = "idle" THEN 0
    ELSE IF th[t].pc = "pub"
    THEN (Len(handlers) - th[t].i) * (MaxClients + 3) + 1
    ELSE (Len(handlers) - th[t].i - 1) * (MaxClients + 3) + 2 + Cardinality(th[t].todo)

InitBroker == InitWith(<<"broker">>, FALSE)

NextBroker ==
    \/ PublishBegin(1, GitPush, "demo", NilPayload)
    \/ BroadcastBegin(1)
    \/ \E c \in Chans : BroadcastSend(1, c)
    \/ BroadcastEnd(1)
    \/ PublishReturn(1)
    \/ SubscribeClient
    \/ \E c \in Chans : UnsubscribeClient(c)
    \/ \E c \in Chans : ClientRead(c)

SpecBroker == InitBroker /\ [][NextBroker]_vars

\* Goroutine t sends (or skips) for client c in this step.
SendStep(t, c) == th[t].pc = "bcast" /\ c \in th[t].todo /\ c \notin th'[t].todo

\* C4: a Broadcast started by Publish ranges over exactly the registered
\* subscribers and handles each of them once: a subscriber whose buffer has
\* room gets one copy of the event appended, a subscriber whose buffer is
\* full gets nothing; no other buffer changes, the subscriber set stays as
\* it is (a skipped subscriber is not removed), and the call ends only when
\* every subscriber has been handled.  So a skipped subscriber that reads an
\* event has room again and gets the next event.
C4_OneCopyEach ==
    /\ [](\A t \in Threads : th[t].pc = "bcast" => th[t].todo \subseteq clients)
    /\ [][\A t \in Threads :
            /\ (AtHandler(t, "broker") /\ th'[t].pc = "bcast") => th'[t].todo = clients
            /\ (th[t].pc = "bcast" /\ th'[t].pc # "bcast") => th[t].todo = {}
            /\ \A c \in Chans :
                  SendStep(t, c) =>
                      /\ th'[t].todo = th[t].todo \ {c}
                      /\ clients' = clients
                      /\ chanBuf' = [chanBuf EXCEPT ![c] =
                                        IF Len(@) < ClientCap
                                        THEN Append(@, th[t].evt) ELSE @]]_vars

\* A registered subscriber that was skipped for one event because its buffer
\* was full holds a later event in its buffer, while another subscriber has
\* received the event it was skipped for.
C4_Witness ==
    \E c, d \in clients :
        /\ c # d
        /\ missed[c] > 0
        /\ recv[d].id = missed[c]
        /\ chanBuf[c] # <<>>
        /\ chanBuf[c][1].id > missed[c]

\* ------------------------------------------------------------------ shutdown
\* The server process: the main goroutine sits in Server.Start
\* (ListenAndServe), the goroutine started by `go s.handleShutdown()` waits
\* for SIGINT or SIGTERM.

\* handleShutdown: the signal arrives and s.Stop() calls
\* httpServer.Shutdown, which closes the listeners.
Signal ==
    /\ proc.alive
    /\ proc.sig = "waiting"
    /\ proc' = [proc EXCEPT !.sig = "stopping", !.atSig = Accepted]
    /\ UNCHANGED <<now, http, replay, web, registry, ipc>>
    /\ UNCHANGED <<busVars, loggerVars, brokerVars>>

\* Whether ListenAndServe has returned http.ErrServerClosed: it does as soon
\* as Shutdown has been called, without waiting for Shutdown to return.
ServeEndedNever(p) == FALSE

ServeEnded(p) == p.sig # "waiting"

\* Server.Start returns nil after ListenAndServe returned ErrServerClosed;
\* runServe returns that to main.
StartReturn ==
    /\ proc.alive
    /\ proc.main = "serving"
    /\ ServeEnded(proc)
    /\ proc' = [proc EXCEPT !.main = "returned"]
    /\ UNCHANGED <<now, http, replay, web, registry, ipc>>
    /\ UNCHANGED <<busVars, loggerVars, brokerVars>>

\* main returns after rootCmd.Execute: the process ends, and with it every
\* goroutine.
MainExit ==
    /\ proc.alive
    /\ proc.main = "returned"
    /\ proc' = [proc EXCEPT !.main = "exited", !.alive = FALSE]
    /\ UNCHANGED <<now, http, replay, web, registry, ipc>>
    /\ UNCHANGED <<busVars, loggerVars, brokerVars>>

\* handleShutdown: s.Stop() has returned (Shutdown is over), event.Shutdown
\* is next.
StopReturn ==
    /\ proc.alive
    /\ proc.sig = "stopping"
    /\ proc' = [proc EXCEPT !.sig = "flushing"]
    /\ UNCHANGED <<now, http, replay, web, registry, ipc>>
    /\ UNCHANGED <<busVars, loggerVars, brokerVars>>

\* handleShutdown: event.Shutdown has closed the Logger, os.Exit(0).
SignalExit ==
    /\ proc.alive
    /\ proc.sig = "flushing"
    /\ closer = "closed"
    /\ proc' = [proc EXCEPT !.sig = "exited", !.alive = FALSE]
    /\ UNCHANGED <<now, http, replay, web, registry, ipc>>
    /\ UNCHANGED <<busVars, loggerVars, brokerVars>>

\* The Logger is the Bus handler and the registered closer; requests publish
\* events while the server runs.
InitShutdown == InitWith(<<"logger">>, FALSE)

NextShutdown ==
    \/ proc.alive /\ PublishBegin(1, GitPush, "demo", NilPayload)
    \/ proc.alive /\ InvokeLogger(1)
    \/ proc.alive /\ PublishReturn(1)
    \/ proc.alive /\ WorkerRecv
    \/ proc.alive /\ WorkerRotate
    \/ proc.alive /\ WorkerWrite
    \/ proc.alive /\ WorkerExit
    \/ Signal
    \/ StartReturn
    \/ MainExit
    \/ StopReturn
    \/ proc.alive /\ proc.sig = "flushing" /\ CloseBegin
    \/ proc.alive /\ CloseEnd
    \/ SignalExit

SpecShutdown == InitShutdown /\ [][NextShutdown]_vars

\* Ids of the events whose complete line is in a file of the event directory.
Logged == {id \in 1..MaxEvents :
              \E n \in Inodes : \E k \in 1..Len(inodes[n]) :
                  inodes[n][k] = [id |-> id, k |-> "line"]}

\* C7: when the process has ended after a shutdown signal, every event the
\* Logger accepted before the signal is in the log: the process does not
\* end before the shutdown path has drained the queue.
C7_ShutdownFlushes ==
    (~proc.alive /\ proc.sig # "waiting") => proc.atSig \subseteq Logged

\* ------------------------------------------------------------------ /debug/events
\* A request is [method, remote, body].  `remote` is r.RemoteAddr: of the
\* form host:port ("hostport") or not; `body` is valid JSON for an Event
\* (with the event it spells) or not.  A JSON value is [t, v]: a string, a
\* boolean or a number.
Str(x) == [t |-> "str", v |-> x]
Bool(b) == [t |-> "bool", v |-> b]
Num(n) == [t |-> "num", v |-> n]

RECURSIVE Pow2(_)
Pow2(n) == IF n = 0 THEN 1 ELSE 2 * Pow2(n - 1)

\* The distance between neighbouring floating-point numbers around n, for a
\* significand of MantissaBits bits.
RECURSIVE Ulp(_)
Ulp(n) == IF n < Pow2(MantissaBits) THEN 1 ELSE 2 * Ulp(n \div 2)

\* The float64 nearest to the natural number n (ties to the even
\* significand), as encoding/json stores a number in an interface{}.
Float64(n) ==
    LET u == Ulp(n)
        q == n \div u
        r == n % u
    IN IF 2 * r < u THEN q * u
       ELSE IF 2 * r > u THEN (q + 1) * u
       ELSE IF q % 2 = 0 THEN q * u ELSE (q + 1) * u

\* json.Decoder.Decode of one value into an interface{}.
DecodeValue(v) == IF v.t = "num" THEN Num(Float64(v.v)) ELSE v

\* json.Decoder.Decode of a valid body into an event.Event: an absent or
\* null payload leaves the map nil.
Decode(body) ==
    [body.evt EXCEPT !.payload =
        IF body.evt.payload.nil THEN NilPayload
        ELSE MapPayload({<<kv[1], DecodeValue(kv[2])>> : kv \in body.evt.payload.kv})]

\* handleDebugEvents: make the map if it is nil, then
\* evt.Payload["_replayed"] = true.
TagOnlyMarker(evt) == [evt EXCEPT !.payload = MapPayload({<<"_replayed", Bool(TRUE)>>})]

Tag(evt) ==
    [evt EXCEPT !.payload =
        MapPayload({kv \in evt.payload.kv : kv[1] # "_replayed"}
                   \cup {<<"_replayed", Bool(TRUE)>>})]

\* A split that takes an address without a port for a host.
SplitHostPortLenient(remote) == [err |-> FALSE, host |-> remote.host]

\* net.SplitHostPort(r.RemoteAddr).
SplitHostPort(remote) ==
    IF remote.form = "hostport" THEN [err |-> FALSE, host |-> remote.host]
    ELSE [err |-> TRUE, host |-> ""]

\* The hosts handleDebugEvents lets through.
LoopbackLoose(host) == host \in {"127.0.0.1", "::1", "::ffff:127.0.0.1"}

Loopback(host) == host \in {"127.0.0.1", "::1"}

\* An endpoint that takes whatever body a loopback client posts.
StatusAnyBody(req) ==
    IF req.method # "POST" THEN 405
    ELSE IF SplitHostPort(req.remote).err THEN 403
    ELSE IF ~Loopback(SplitHostPort(req.remote).host) THEN 403
    ELSE 200

\* The status code handleDebugEvents answers with.
Status(req) ==
    IF req.method # "POST" THEN 405
    ELSE IF SplitHostPort(req.remote).err THEN 403
    ELSE IF ~Loopback(SplitHostPort(req.remote).host) THEN 403
    ELSE IF ~req.body.valid THEN 400
    ELSE 200

\* The requests a client can send; the event of a body has id `id`.
Methods == {"POST", "GET"}

Remotes ==
    {[form |-> "hostport", host |-> h] :
        h \in {"127.0.0.1", "::1", "192.168.1.7", "::ffff:127.0.0.1"}}
    \cup {[form |-> "noport", host |-> "127.0.0.1"]}

Payloads ==
    {NilPayload,
     MapPayload({}),
     MapPayload({<<"ref", Str("main")>>, <<"size", Num(Pow2(MantissaBits) + 1)>>}),
     MapPayload({<<"_replayed", Bool(FALSE)>>, <<"size", Num(1)>>})}

Bodies(id) ==
    {[valid |-> FALSE, evt |-> Idle.evt]}
    \cup {[valid |-> TRUE, evt |-> New(id, GitPush, "demo", p, 0)] : p \in Payloads}

\* A request reaches the mux and is routed to handleDebugEvents on
\* goroutine t.
DebugArrive(t, req) ==
    /\ th[t].pc = "idle"
    /\ http[t].req = NoReq \/ http[t].status # 0
    /\ nextId < MaxRequests
    /\ nextId' = nextId + 1
    /\ http' = [http EXCEPT ![t] = [req |-> req, status |-> 0]]
    /\ UNCHANGED <<handlers, th, callLog, returned, crashed>>
    /\ UNCHANGED <<loggerVars, brokerVars, now, proc, replay, web, registry, ipc>>

\* A gateway that hands an accepted event to the Bus (event.Publish) and
\* answers 200 at once.
DebugHandlePublish(t) ==
    /\ th[t].pc = "idle"
    /\ http[t].req # NoReq
    /\ http[t].status = 0
    /\ th' = [th EXCEPT ![t] = [pc |-> "pub", evt |-> Tag(Decode(http[t].req.body)),
                                i |-> 0, todo |-> {}, kind |-> "publish"]]
    /\ http' = [http EXCEPT ![t].status = Status(http[t].req)]
    /\ UNCHANGED <<handlers, nextId, callLog, returned, crashed>>
    /\ UNCHANGED <<loggerVars, brokerVars, now, proc, replay, web, registry, ipc>>

\* handleDebugEvents up to its answer, or up to the read lock of
\* Broker.Broadcast when the request is accepted.
DebugHandle(t) ==
    /\ th[t].pc = "idle"
    /\ http[t].req # NoReq
    /\ http[t].status = 0
    /\ IF Status(http[t].req) = 200
       THEN /\ th' = [th EXCEPT ![t] = [pc |-> "bcast",
                                        evt |-> Tag(Decode(http[t].req.body)),
                                        i |-> 0, todo |-> clients, kind |-> "debug"]]
            /\ UNCHANGED http
       ELSE /\ http' = [http EXCEPT ![t].status = Status(http[t].req)]
            /\ UNCHANGED th
    /\ UNCHANGED <<handlers, nextId, callLog, returned, crashed>>
    /\ UNCHANGED <<loggerVars, brokerVars, now, proc, replay, web, registry, ipc>>

\* handleDebugEvents after Broadcast returned: 200 and {"status":"ok"}.
DebugEnd(t) ==
    /\ th[t].kind = "debug"
    /\ th[t].pc = "bcast"
    /\ th[t].todo = {}
    /\ th' = [th EXCEPT ![t] = Idle]
    /\ http' = [http EXCEPT ![t].status = 200]
    /\ UNCHANGED <<handlers, nextId, callLog, returned, crashed>>
    /\ UNCHANGED <<loggerVars, brokerVars, now, proc, replay, web, registry, ipc>>

\* The gateway with IPC subscribers and clients of the debug endpoint.
InitDebug == InitWith(<<"broker">>, FALSE)

NextDebug ==
    \/ \E m \in Methods, a \in Remotes, b \in Bodies(nextId + 1) :
          DebugArrive(1, [method |-> m, remote |-> a, body |-> b])
    \/ DebugHandle(1)
    \/ \E c \in Chans : BroadcastSend(1, c)
    \/ DebugEnd(1)
    \/ SubscribeClient
    \/ \E c \in Chans : ClientRead(c)

SpecDebug == InitDebug /\ [][NextDebug]_vars

\* A POST whose remote address is not 127.0.0.1 or ::1.
ForeignPost(req) ==
    /\ req.method = "POST"
    /\ ~(req.remote.form = "hostport" /\ req.remote.host \in {"127.0.0.1", "::1"})

OtherPairs(payload) == {kv \in payload.kv : kv[1] # "_replayed"}

\* Event e is posted event p with the marker set and `others` as its other
\* payload pairs.
Replayed(e, p, others) ==
    /\ e.id = p.id /\ e.type = p.type /\ e.repo = p.repo /\ e.ts = p.ts
    /\ ~e.payload.nil
    /\ \A kv \in e.payload.kv : kv[1] = "_replayed" <=> kv = <<"_replayed", Bool(TRUE)>>
    /\ <<"_replayed", Bool(TRUE)>> \in e.payload.kv
    /\ OtherPairs(e.payload) = others

\* The payload pairs of a posted event other than the marker, as JSON
\* decoding yields them.
DecodedPairs(p) == {<<kv[1], DecodeValue(kv[2])>> : kv \in OtherPairs(p.payload)}

\* Goroutine t is inside the Broadcast of an accepted debug request.
Replaying(t) == th[t].kind = "debug" /\ th[t].pc = "bcast"

\* C10 as stated: the event broadcast for an accepted request has the marker
\* and otherwise the id, type, repository, timestamp and payload pairs of
\* the posted event.
C10_ReplayKeepsFields ==
    \A t \in Threads : Replaying(t) =>
        Replayed(th[t].evt, http[t].req.body.evt, OtherPairs(http[t].req.body.evt.payload))

\* C10 as amended: the event broadcast for an accepted request has the
\* marker and otherwise the id, type, repository, timestamp and payload keys
\* of the posted event, each value as JSON decoding yields it (a number is
\* the nearest float64); it is handed once to each subscriber: a buffer with
\* room gets one copy, a full one nothing, and the request ends with 200
\* when every subscriber has been handled.
C10_ReplayKeepsDecoded ==
    /\ [](\A t \in Threads :
            Replaying(t) =>
                Replayed(th[t].evt, http[t].req.body.evt, DecodedPairs(http[t].req.body.evt)))
    /\ [][\A t \in Threads :
            Replaying(t) =>
                /\ th'[t].pc = "bcast" => th'[t].evt = th[t].evt
                /\ th'[t].pc # "bcast" =>
                      th[t].todo = {} /\ http'[t].status = 200 /\ th'[t].pc = "idle"
                /\ \A c \in Chans :
                      SendStep(t, c) =>
                          chanBuf' = [chanBuf EXCEPT ![c] =
                                         IF Len(@) < ClientCap
                                         THEN Append(@, th[t].evt) ELSE @]]_vars

\* A subscriber has received the event of an accepted request whose posted
\* payload had a key besides the marker and a number that is no float64.
C10_Witness ==
    /\ http[1].status = 200
    /\ \E c \in clients :
          /\ recv[c].id = http[1].req.body.evt.id
          /\ <<"_replayed", Bool(TRUE)>> \in recv[c].payload.kv
          /\ <<"ref", Str("main")>> \in recv[c].payload.kv
          /\ \E kv \in http[1].req.body.evt.payload.kv : kv \notin recv[c].payload.kv

\* ------------------------------------------------------------------ lgh replay: reading the log
\* Besides the chunks the worker writes, a file found on disk can hold
\* "junk" (a terminated line that is no JSON document) and "long" (the
\* terminated JSON line of an event, longer than bufio.MaxScanTokenSize).
Terminated(c) == c.k \in {"line", "junk", "long"}

\* The event whose JSON document the chunks of id spell.
Stored(id) ==
    New(id, IF id % 2 = 1 THEN GitPush ELSE RepoAdded, "demo",
        MapPayload({<<"size", Num(id)>>}), 0)

\* The text lines of a content: the terminated ones, then what follows the
\* last terminator, if anything.
RECURSIVE TextLinesFrom(_, _)
TextLinesFrom(content, cur) ==
    IF content = <<>> THEN (IF cur = <<>> THEN <<>> ELSE <<cur>>)
    ELSE IF Terminated(Head(content))
         THEN <<Append(cur, Head(content))>> \o TextLinesFrom(Tail(content), <<>>)
         ELSE TextLinesFrom(Tail(content), Append(cur, Head(content)))

TextLines(content) == TextLinesFrom(content, <<>>)

\* A line that does not fit the Scanner's buffer.
TooLong(line) == \E k \in 1..Len(line) : line[k].k = "long"

\* for scanner.Scan() { allLines = append(allLines, scanner.Text()) }: Scan
\* returns false at the end of the file and at a token that is too long;
\* scanner.Err() is not looked at.
RECURSIVE Scan(_)
Scan(lines) ==
    IF lines = <<>> \/ TooLong(Head(lines)) THEN <<>>
    ELSE <<Head(lines)>> \o Scan(Tail(lines))

\* A line json.Unmarshal accepts: exactly one JSON document.
IsDocument(line) == Len(line) = 1 /\ line[1].k \in {"line", "data", "long"}

\* json.Unmarshal([]byte(line), &evt).
Unmarshal(line) ==
    IF IsDocument(line)
    THEN [err |-> FALSE, evt |-> Decode([valid |-> TRUE, evt |-> Stored(line[1].id)])]
    ELSE [err |-> TRUE, evt |-> Idle.evt]

\* The second loop of readLastEvents.
RECURSIVE Candidates(_, _)
Candidates(allLines, filterType) ==
    IF allLines = <<>> THEN <<>>
    ELSE LET u == Unmarshal(Head(allLines))
             rest == Candidates(Tail(allLines), filterType)
         IN IF u.err THEN rest
            ELSE IF filterType # "" /\ u.evt.type # filterType THEN rest
            ELSE <<u.evt>> \o rest

\* readLastEvents(path, limit, filterType); path is the inode the name
\* events.jsonl leads to, 0 when there is no such file.
readLastEvents(path, limit, filterType) ==
    IF path = 0 THEN [events |-> <<>>, err |-> FALSE]
    ELSE LET candidates == Candidates(Scan(TextLines(inodes[path])), filterType)
             count == Len(candidates)
             start == IF count > limit THEN count - limit ELSE 0
         IN [events |-> SubSeq(candidates, start + 1, count), err |-> FALSE]

\* runReplay up to the end of its `if len(events) == 0` block.
ReplayRead ==
    /\ replay.pc = "start"
    /\ LET r == readLastEvents(fs.log, replay.last, replay.type)
       IN replay' = [replay EXCEPT
              !.sel = r.events,
              !.pc = IF r.err \/ r.events = <<>> THEN "done" ELSE "post",
              !.out = IF r.err THEN "error"
                      ELSE IF r.events = <<>> THEN "nothing" ELSE "none",
              !.i = 1]
    /\ UNCHANGED <<busVars, loggerVars, brokerVars, now, proc, http, web, registry, ipc>>

\* The values of --type and --last.
TypeFlags == {"", GitPush, RepoAdded}
LastFlags == 0..MaxLast

\* The contents of an events.jsonl found on disk.
SampleIds == {1, 2}
LineKinds == {"line", "data", "junk", "long"}

RECURSIVE Contents(_)
Contents(n) ==
    IF n = 0 THEN {<<>>}
    ELSE Contents(n - 1)
         \cup {Append(c, [id |-> id, k |-> k]) :
                  c \in {d \in Contents(n - 1) : Len(d) = n - 1},
                  id \in SampleIds, k \in LineKinds}

Started(last, type) == [NoReplay EXCEPT !.pc = "start", !.last = last, !.type = type]

\* `lgh replay --last K --type T` started on any log, or on none.
InitRead ==
    /\ handlers = <<>>
    /\ th = [t \in Threads |-> Idle]
    /\ nextId = 0
    /\ callLog = [id \in 1..MaxEvents |-> <<>>]
    /\ returned = {}
    /\ crashed = {}
    /\ queue = <<>>
    /\ queueClosed = FALSE
    /\ worker = [pc |-> "recv", cur |-> Idle.evt, rot |-> <<"none", "none">>]
    /\ file = NoHandle
    /\ \E c \in Contents(MaxLines) : inodes = <<c>>
    /\ \E l \in {0, 1} : fs = [log |-> l, bak |-> [s \in 0..MaxClock |-> 0]]
    /\ now = 0
    /\ faulty = FALSE
    /\ handleLog = <<>>
    /\ wrote = <<>>
    /\ clients = {}
    /\ chanBuf = [c \in Chans |-> <<>>]
    /\ chanClosed = [c \in Chans |-> FALSE]
    /\ made = 0
    /\ recv = [c \in Chans |-> Idle.evt]
    /\ missed = [c \in Chans |-> 0]
    /\ closer = "idle"
    /\ proc = [main |-> "serving", sig |-> "waiting", alive |-> TRUE, atSig |-> {}]
    /\ http = [t \in Threads |-> [req |-> NoReq, status |-> 0]]
    /\ \E l \in LastFlags, ty \in TypeFlags : replay = Started(l, ty)
    /\ web = NoWeb
    /\ registry = NoRegistry
    /\ ipc = NoIpc

NextRead == ReplayRead

SpecRead == InitRead /\ [][NextRead]_vars

\* The lines of the log that hold one parseable event of the type asked
\* for, by their position in the file.
Matching ==
    IF fs.log = 0 THEN {}
    ELSE LET lines == TextLines(inodes[fs.log])
         IN {x \in 1..Len(lines) :
                /\ IsDocument(lines[x])
                /\ replay.type # "" => Stored(lines[x][1].id).type = replay.type}

Min(a, b) == IF a < b THEN a ELSE b

\* C12: readLastEvents returns the last min(K, m) of the m parseable events
\* of the log whose type is T (all types when T is empty), oldest first, and
\* no error; lines that do not parse are skipped, and a missing file gives
\* the empty result.
C12_ReadsLastMatching ==
    replay.pc \in {"post", "done"} =>
        LET m == Cardinality(Matching)
            n == Min(replay.last, m)
            lines == TextLines(inodes[fs.log])
        IN /\ replay.out # "error"
           /\ Len(replay.sel) = n
           /\ \A j \in 1..n : \E x \in Matching :
                  /\ Cardinality({y \in Matching : y <= x}) = m - n + j
                  /\ replay.sel[j].id = lines[x][1].id
                  /\ replay.sel[j].type = Stored(lines[x][1].id).type

\* ------------------------------------------------------------------ lgh replay: posting
\* The gateway accepts connections: its process runs and Shutdown has not
\* closed the listener.
Listening == proc.alive /\ proc.sig = "waiting"

\* json.Marshal(evt): Payload is `omitempty`, so a nil or empty map is left
\* out of the document.
Marshal(evt) ==
    [valid |-> TRUE,
     evt |-> [evt EXCEPT !.payload = IF evt.payload.kv = {} THEN NilPayload
                                     ELSE evt.payload]]

\* The request client.Post sends to http://127.0.0.1:<port>/debug/events.
PostRequest(evt) ==
    [method |-> "POST", remote |-> [form |-> "hostport", host |-> "127.0.0.1"],
     body |-> Marshal(evt)]

\* A replay that warns about a failed connection and goes on with the next
\* event.
ReplayPostGoesOn(t) ==
    /\ replay.pc = "post"
    /\ th[t].pc = "idle"
    /\ IF Listening
       THEN /\ http' = [http EXCEPT ![t] = [req |-> PostRequest(replay.sel[replay.i]),
                                            status |-> 0]]
            /\ replay' = [replay EXCEPT !.pc = "wait",
                                        !.posted = Append(@, replay.sel[replay.i].id)]
       ELSE /\ replay' = [replay EXCEPT
                   !.i = @ + 1,
                   !.pc = IF replay.i = Len(replay.sel) THEN "done" ELSE "post",
                   !.out = IF replay.i = Len(replay.sel) THEN "success" ELSE "none"]
            /\ UNCHANGED http
    /\ UNCHANGED <<busVars, loggerVars, brokerVars, now, proc, web, registry, ipc>>

\* client.Post for the event at hand: the request reaches goroutine t of the
\* gateway, or the connection fails and runReplay returns the error.
ReplayPost(t) ==
    /\ replay.pc = "post"
    /\ th[t].pc = "idle"
    /\ IF Listening
       THEN /\ http' = [http EXCEPT ![t] = [req |-> PostRequest(replay.sel[replay.i]),
                                            status |-> 0]]
            /\ replay' = [replay EXCEPT !.pc = "wait",
                                        !.posted = Append(@, replay.sel[replay.i].id)]
       ELSE /\ replay' = [replay EXCEPT !.pc = "done", !.out = "error"]
            /\ UNCHANGED http
    /\ UNCHANGED <<busVars, loggerVars, brokerVars, now, proc, web, registry, ipc>>

\* The response has come: a warning or successCount++, the sleep, and the
\* next turn of the loop; after the last event, ui.Success and return nil.
ReplayResponse(t) ==
    /\ replay.pc = "wait"
    /\ http[t].status # 0
    /\ replay' = [replay EXCEPT
           !.ok = IF http[t].status = 200 THEN @ + 1 ELSE @,
           !.i = @ + 1,
           !.pc = IF replay.i = Len(replay.sel) THEN "done" ELSE "post",
           !.out = IF replay.i = Len(replay.sel) THEN "success" ELSE "none"]
    /\ UNCHANGED <<busVars, loggerVars, brokerVars, now, proc, http, web, registry, ipc>>

\* The gateway's process ends while the request is in flight: client.Post
\* returns an error.
ReplayCut(t) ==
    /\ replay.pc = "wait"
    /\ http[t].status = 0
    /\ ~proc.alive
    /\ replay' = [replay EXCEPT !.pc = "done", !.out = "error"]
    /\ UNCHANGED <<busVars, loggerVars, brokerVars, now, proc, http, web, registry, ipc>>

\* The lines of earlier events, as the worker wrote them.
RECURSIVE EarlierLog(_)
EarlierLog(n) ==
    IF n = 0 THEN <<>> ELSE Append(EarlierLog(n - 1), [id |-> n, k |-> "line"])

\* The gateway runs with the Logger and the Broker on the Bus; the log holds
\* the lines of the events published so far; `lgh replay` is started.
InitReplayLog ==
    /\ handlers = <<"logger", "broker">>
    /\ th = [t \in Threads |-> Idle]
    /\ nextId = MaxEvents - 1
    /\ callLog = [id \in 1..MaxEvents |-> <<>>]
    /\ returned = {}
    /\ crashed = {}
    /\ queue = <<>>
    /\ queueClosed = FALSE
    /\ worker = [pc |-> "recv", cur |-> Idle.evt, rot |-> <<"none", "none">>]
    /\ file = [ino |-> 1, open |-> TRUE]
    /\ fs = [log |-> 1, bak |-> [s \in 0..MaxClock |-> 0]]
    /\ inodes = <<EarlierLog(MaxEvents - 1)>>
    /\ now = 0
    /\ faulty = FALSE
    /\ handleLog = <<>>
    /\ wrote = <<>>
    /\ clients = {}
    /\ chanBuf = [c \in Chans |-> <<>>]
    /\ chanClosed = [c \in Chans |-> FALSE]
    /\ made = 0
    /\ recv = [c \in Chans |-> Idle.evt]
    /\ missed = [c \in Chans |-> 0]
    /\ closer = "idle"
    /\ proc = [main |-> "serving", sig |-> "waiting", alive |-> TRUE, atSig |-> {}]
    /\ http = [t \in Threads |-> [req |-> NoReq, status |-> 0]]
    /\ replay = Started(MaxLast, "")
    /\ web = NoWeb
    /\ registry = NoRegistry
    /\ ipc = NoIpc

\* Goroutine 1 publishes, goroutine 2 serves /debug/events; two IPC clients
\* listen.
NextReplayLog ==
    \/ PublishBegin(1, GitPush, "demo", NilPayload)
    \/ \E t \in Threads : PublisherStep(t)
    \/ WorkerRecv
    \/ WorkerRotate
    \/ WorkerWrite
    \/ made < 2 /\ SubscribeClient
    \/ \E c \in 1..2 : ClientRead(c)
    \/ ReplayRead
    \/ ReplayPost(2)
    \/ DebugHandle(2)
    \/ DebugEnd(2)
    \/ ReplayResponse(2)

SpecReplayLog == InitReplayLog /\ [][NextReplayLog]_vars

\* The event carries the marker the debug endpoint sets.
Marked(e) == \E kv \in e.payload.kv : kv = <<"_replayed", Bool(TRUE)>>

\* A step of `lgh replay` or of the goroutine serving its request.
ReplayStep == replay' # replay \/ http' # http \/ th'[2] # th[2]

\* C11: a replay leaves the persisted log as it is.  No step of the replay
\* or of the gateway's debug handler changes the files, the Logger's queue
\* or what the Logger was handed; the Logger is never handed an event that
\* carries the _replayed marker; and every line the worker adds is the line
\* of an event the Bus published.
C11_ReplayLeavesLog ==
    /\ [](/\ \A k \in 1..Len(queue) : ~Marked(queue[k])
          /\ ~Marked(worker.cur)
          /\ \A k \in 1..Len(handleLog) : handleLog[k].id > MaxEvents - 1)
    /\ [][ReplayStep => UNCHANGED <<fs, inodes, queue, handleLog, wrote>>]_vars

\* A replayed event has reached a subscriber and the replay has reported
\* success, while the worker was writing a published event.
C11_Witness ==
    /\ replay.out = "success"
    /\ replay.ok = Len(replay.sel)
    /\ replay.ok >= 1
    /\ \E c \in Chans : Marked(recv[c])
    /\ Len(wrote) = 1

\* ------------------------------------------------------------------ lgh replay against the gateway
\* A log of n lines, the line at position x being that of event x: a
\* normal line or one longer than the Scanner's buffer.
ReplayLogs ==
    {c \in [1..MaxLines -> [id : 1..MaxLines, k : {"line", "long"}]] :
        \A x \in 1..MaxLines : c[x].id = x}

\* The gateway runs with the Broker on the Bus and an idle Logger; IPC
\* clients subscribe; `lgh replay --last K --type T` is started on a log.
InitReplay ==
    /\ handlers = <<"broker">>
    /\ th = [t \in Threads |-> Idle]
    /\ nextId = MaxEvents
    /\ callLog = [id \in 1..MaxEvents |-> <<>>]
    /\ returned = {}
    /\ crashed = {}
    /\ queue = <<>>
    /\ queueClosed = FALSE
    /\ worker = [pc |-> "recv", cur |-> Idle.evt, rot |-> <<"none", "none">>]
    /\ file = [ino |-> 1, open |-> TRUE]
    /\ fs = [log |-> 1, bak |-> [s \in 0..MaxClock |-> 0]]
    /\ \E c \in ReplayLogs : inodes = <<c>>
    /\ now = 0
    /\ faulty = FALSE
    /\ handleLog = <<>>
    /\ wrote = <<>>
    /\ clients = {}
    /\ chanBuf = [c \in Chans |-> <<>>]
    /\ chanClosed = [c \in Chans |-> FALSE]
    /\ made = 0
    /\ recv = [c \in Chans |-> Idle.evt]
    /\ missed = [c \in Chans |-> 0]
    /\ closer = "idle"
    /\ proc = [main |-> "serving", sig |-> "waiting", alive |-> TRUE, atSig |-> {}]
    /\ http = [t \in Threads |-> [req |-> NoReq, status |-> 0]]
    /\ \E l \in LastFlags, ty \in TypeFlags : replay = Started(l, ty)
    /\ web = NoWeb
    /\ registry = NoRegistry
    /\ ipc = NoIpc

\* Clients subscribe before the replay starts and read at any time;
\* goroutine 2 serves /debug/events; a signal can stop the gateway.
NextReplay ==
    \/ replay.pc = "start" /\ made < 2 /\ SubscribeClient
    \/ proc.alive /\ \E c \in 1..2 : ClientRead(c)
    \/ ReplayRead
    \/ ReplayPost(2)
    \/ proc.alive /\ DebugHandle(2)
    \/ proc.alive /\ \E c \in Chans : BroadcastSend(2, c)
    \/ proc.alive /\ DebugEnd(2)
    \/ ReplayResponse(2)
    \/ ReplayCut(2)
    \/ Signal
    \/ StartReturn
    \/ MainExit
    \/ StopReturn
    \/ proc.alive /\ proc.sig = "flushing" /\ CloseBegin
    \/ proc.alive /\ WorkerExit
    \/ proc.alive /\ CloseEnd
    \/ SignalExit

SpecReplay == InitReplay /\ [][NextReplay]_vars

\* The ids of the events `replay --last K --type T` is to deliver: the last
\* min(K, m) of the m parseable events of the log that have type T.
Wanted ==
    LET lines == TextLines(inodes[fs.log])
        m == Cardinality(Matching)
    IN {lines[x][1].id : x \in {y \in Matching :
            Cardinality({z \in Matching : z <= y}) > m - Min(replay.last, m)}}

\* The wanted id that comes after id a (0 when there is none).
After(a) ==
    IF \E b \in Wanted : b > a
    THEN CHOOSE b \in Wanted : b > a /\ \A d \in Wanted : d > a => b <= d
    ELSE 0

\* C13: with the gateway running, a subscriber whose buffer never overflows
\* receives exactly the last K events of type T of the log, in the order
\* of the log, each carrying _replayed = true: every event it receives is
\* marked and is the wanted event after the one it received before, and
\* once the replay has reported success and the buffer is read empty,
\* nothing wanted is left.
C13_SubscribersGetLastK ==
    /\ [](\A c \in clients : recv[c] # Idle.evt => Marked(recv[c]))
    /\ [][\A c \in clients :
             (recv'[c] # recv[c] /\ missed[c] = 0)
                 => (recv'[c].id # 0 /\ recv'[c].id = After(recv[c].id))]_vars
    /\ [](\A c \in clients :
             (/\ replay.pc = "done"
              /\ replay.out \in {"success", "nothing"}
              /\ proc.alive
              /\ missed[c] = 0
              /\ chanBuf[c] = <<>>) => After(recv[c].id) = 0)

\* C14: a POST that cannot reach the endpoint ends the replay at that
\* event: the run ends with the error, nothing is posted in that step or
\* later, and success is never reported.
C14_FailedPostStops ==
    /\ [][(replay.pc = "post" /\ replay'.pc # "post" /\ ~Listening)
             => (replay'.pc = "done" /\ replay'.out = "error"
                 /\ replay'.posted = replay.posted /\ http' = http)]_vars
    /\ [][replay.pc = "done" => (replay' = replay /\ http' = http)]_vars

\* The replay has posted an event, the gateway was stopped, and the POST
\* of the next event failed with events left to post.
C14_Witness ==
    /\ replay.out = "error"
    /\ replay.pc = "done"
    /\ Len(replay.posted) >= 1
    /\ replay.ok = Len(replay.posted)
    /\ replay.i <= Len(replay.sel)

\* ------------------------------------------------------------------ URL paths
\* A path is strings.Split(path, "/"): "/a/b" is <<"", "a", "b">>, "/" is
\* <<"", "">> and the empty path is <<"">>.  Segments are sample strings.
EmptyPath == <<"">>

\* strings.HasSuffix(p, ".git") on the sample segments.
HasSuffixGit(p) == p \in {"repo.git", "gone.git", "work.git", "lgh.git",
                          "git-receive-pack.git", ".git"}

\* strings.TrimPrefix(path, "/") followed by strings.Split(_, "/").
TrimPrefix(path) == IF Len(path) >= 2 /\ path[1] = "" THEN Tail(path) ELSE path

\* The loop of virtualOwnerMiddleware: the place of the first segment that
\* ends in .git, counted from 1 (0: none).
FirstGit(parts) ==
    IF \E i \in 1..Len(parts) : HasSuffixGit(parts[i])
    THEN CHOOSE i \in 1..Len(parts) :
             /\ HasSuffixGit(parts[i])
             /\ \A j \in 1..(i - 1) : ~HasSuffixGit(parts[j])
    ELSE 0

\* A rewrite that takes any first segment for an owner.
RewriteAnyOwner(path) ==
    IF path = EmptyPath THEN path
    ELSE LET parts == TrimPrefix(path)
         IN IF FirstGit(parts) = 2 THEN <<"">> \o Tail(parts) ELSE path

\* virtualOwnerMiddleware: the new r.URL.Path.
Rewrite(path) ==
    IF path = EmptyPath THEN path
    ELSE LET parts == TrimPrefix(path)
         IN IF FirstGit(parts) = 2 /\ parts[1] = "lgh"
            THEN <<"">> \o Tail(parts)
            ELSE path

\* ------------------------------------------------------------------ Basic authentication
\* hashWithSalt and sha256Hex: a hash is the tuple of what went into it.
hashWithSalt(password, salt) == <<"hmac-sha256", salt, password>>
sha256Hex(x) == <<"sha256", x>>

\* The stored AuthPasswordHash: "salt:hash", a bare hash, or empty.
Salted(password, salt) ==
    [form |-> "salted", salt |-> salt, hash |-> hashWithSalt(password, salt)]
Simple(password) == [form |-> "simple", salt |-> "", hash |-> sha256Hex(password)]
NoHash == [form |-> "empty", salt |-> "", hash |-> <<>>]

\* AuthMiddleware.checkPassword.
checkPassword(passwordHash, password) ==
    IF passwordHash.form = "salted"
    THEN hashWithSalt(password, passwordHash.salt) = passwordHash.hash
    ELSE sha256Hex(password) = passwordHash.hash

\* r.BasicAuth() gives ok = false when there is no usable Authorization
\* header.
NoAuth == [ok |-> FALSE, user |-> "", pass |-> ""]
Basic(user, pass) == [ok |-> TRUE, user |-> user, pass |-> pass]

\* A middleware that lets a request through when either check succeeds.
AuthorizedEither(cfg, auth) ==
    /\ auth.ok
    /\ auth.user = cfg.user \/ checkPassword(cfg.hash, auth.pass)

\* The checks of AuthMiddleware.Wrap.
Authorized(cfg, auth) ==
    /\ auth.ok
    /\ auth.user = cfg.user
    /\ checkPassword(cfg.hash, auth.pass)

\* A server that never installs the middleware.
AuthInstalledNever(cfg) == FALSE

\* Server.Start wraps the chain in the AuthMiddleware.
AuthInstalled(cfg) == cfg.authEnabled /\ cfg.user # "" /\ cfg.hash # NoHash

\* ------------------------------------------------------------------ the Git backend handler
\* The directories under the repository root: "repo.git" is a bare
\* repository, "work.git" a repository with a work tree.
ReposDir == [n \in {"repo.git", "work.git"} |->
                IF n = "repo.git" THEN "bare" ELSE "worktree"]

\* An existence check that finds every repository.
IsBareRepoAny(name) == TRUE

\* git.IsBareRepo(filepath.Join(b.reposDir, name)).
IsBareRepo(name) == name \in DOMAIN ReposDir /\ ReposDir[name] = "bare"

\* Backend.parseRequest: the regular expression ^/([^/]+\.git)(.*)$ on the
\* sample segments; `rest` is the segments of the second group.
parseRequest(path) ==
    IF /\ Len(path) >= 2
       /\ path[1] = ""
       /\ HasSuffixGit(path[2])
       /\ path[2] # ".git"
    THEN [repoPath |-> path[2], rest |-> SubSeq(path, 3, Len(path))]
    ELSE [repoPath |-> "", rest |-> <<>>]

\* strings.Contains(gitPath, "git-receive-pack") on the sample segments.
ContainsReceivePack(rest) ==
    \E i \in 1..Len(rest) : rest[i] \in {"git-receive-pack", "git-receive-pack.git"}

\* A gate that looks at the path only.
isPushRequestPathOnly(method, rest, service) ==
    method = "POST" /\ ContainsReceivePack(rest)

\* Backend.isPushRequest.
isPushRequest(method, rest, service) ==
    IF method # "POST" THEN FALSE
    ELSE IF ContainsReceivePack(rest) THEN TRUE
    ELSE service = "git-receive-pack"

\* What git-http-backend can answer once it runs.
BackendAnswers == {200, 403, 404}

\* ------------------------------------------------------------------ the handler chain
\* web is [pc, cfg, req, path, status, hdr, by, ran, trace, alog]: the
\* configuration the server was started with, the request, its r.URL.Path,
\* the response (status, WWW-Authenticate header, the stage that wrote it),
\* whether git-http-backend was started, the stages entered, and the access
\* log record.
HealthPath == <<"", "health">>
DebugPath == <<"", "debug", "events">>
Challenge == "Basic realm=\"LGH Repository Access\", charset=\"UTF-8\""
NoRecord == [method |-> "", path |-> <<>>, status |-> 0]

Quiet(cfg) ==
    [pc |-> "idle", cfg |-> cfg,
     req |-> [method |-> "", path |-> EmptyPath, service |-> "", auth |-> NoAuth,
              remote |-> NoReq.remote, body |-> NoReq.body],
     path |-> EmptyPath, status |-> 0, hdr |-> "", by |-> "", ran |-> FALSE,
     trace |-> <<>>, alog |-> NoRecord]

\* A request arrives at the server's mux.
WebArrive(req) ==
    /\ web.pc = "idle"
    /\ web' = [Quiet(web.cfg) EXCEPT !.pc = "mux", !.req = req, !.path = req.path]
    /\ UNCHANGED <<busVars, loggerVars, brokerVars, now, proc, http, replay, registry, ipc>>

\* The response is out; the server waits for the next request.
WebDone ==
    /\ web.pc = "done"
    /\ web' = Quiet(web.cfg)
    /\ http' = [t \in Threads |-> [req |-> NoReq, status |-> 0]]
    /\ UNCHANGED <<busVars, loggerVars, brokerVars, now, proc, replay, registry, ipc>>

Answer(status, hdr, by) ==
    [web EXCEPT !.pc = "done", !.status = status, !.hdr = hdr, !.by = by]

\* The routes of the mux: /health, /debug/events, and "/" for the chain,
\* whose outermost handler is the AuthMiddleware when it is installed.
Mux ==
    /\ web.pc = "mux"
    /\ IF web.path = HealthPath
       THEN /\ web' = Answer(200, "", "health")
            /\ UNCHANGED http
       ELSE IF web.path = DebugPath
       THEN /\ web' = [web EXCEPT !.pc = "debug"]
            /\ http' = [http EXCEPT ![1] =
                   [req |-> [method |-> web.req.method, remote |-> web.req.remote,
                             body |-> web.req.body],
                    status |-> 0]]
       ELSE /\ web' = [web EXCEPT
                   !.pc = IF AuthInstalled(web.cfg) THEN "auth" ELSE "logging"]
            /\ UNCHANGED http
    /\ UNCHANGED <<busVars, loggerVars, brokerVars, now, proc, replay, registry, ipc>>

\* handleDebugEvents has answered.
DebugAnswered ==
    /\ web.pc = "debug"
    /\ http[1].status # 0
    /\ web' = Answer(http[1].status, "", "debug")
    /\ UNCHANGED <<busVars, loggerVars, brokerVars, now, proc, http, replay, registry, ipc>>

\* AuthMiddleware.Wrap.
AuthWrap ==
    /\ web.pc = "auth"
    /\ web' = IF web.path = HealthPath \/ Authorized(web.cfg, web.req.auth)
              THEN [web EXCEPT !.pc = "logging", !.trace = Append(@, "auth")]
              ELSE [Answer(401, Challenge, "auth") EXCEPT !.trace = Append(@, "auth")]
    /\ UNCHANGED <<busVars, loggerVars, brokerVars, now, proc, http, replay, registry, ipc>>

\* loggingMiddleware up to next.ServeHTTP.
LoggingEnter ==
    /\ web.pc = "logging"
    /\ web' = [web EXCEPT !.pc = "owner", !.trace = Append(@, "logging")]
    /\ UNCHANGED <<busVars, loggerVars, brokerVars, now, proc, http, replay, registry, ipc>>

\* virtualOwnerMiddleware.
VirtualOwner ==
    /\ web.pc = "owner"
    /\ web' = [web EXCEPT !.pc = "backend", !.path = Rewrite(web.path),
                          !.trace = Append(@, "owner")]
    /\ UNCHANGED <<busVars, loggerVars, brokerVars, now, proc, http, replay, registry, ipc>>

\* The backend with the existence gate ahead of the read-only gate.
BackendServeExistsFirst ==
    /\ web.pc = "backend"
    /\ LET p == parseRequest(web.path)
           w == [web EXCEPT !.pc = "logged", !.trace = Append(@, "backend")]
       IN IF p.repoPath = ""
          THEN web' = [w EXCEPT !.status = 400, !.by = "parse"]
          ELSE IF ~IsBareRepo(p.repoPath)
          THEN web' = [w EXCEPT !.status = 404, !.by = "exists"]
          ELSE IF web.cfg.readOnly
                  /\ isPushRequest(web.req.method, p.rest, web.req.service)
          THEN web' = [w EXCEPT !.status = 403, !.by = "readonly"]
          ELSE \E a \in BackendAnswers :
                   web' = [w EXCEPT !.status = a, !.by = "cgi", !.ran = TRUE]
    /\ UNCHANGED <<busVars, loggerVars, brokerVars, now, proc, http, replay, registry, ipc>>

\* Backend.ServeHTTP: the three gates, then the CGI handler.
BackendServe ==
    /\ web.pc = "backend"
    /\ LET p == parseRequest(web.path)
           w == [web EXCEPT !.pc = "logged", !.trace = Append(@, "backend")]
       IN IF p.repoPath = ""
          THEN web' = [w EXCEPT !.status = 400, !.by = "parse"]
          ELSE IF web.cfg.readOnly
                  /\ isPushRequest(web.req.method, p.rest, web.req.service)
          THEN web' = [w EXCEPT !.status = 403, !.by = "readonly"]
          ELSE IF ~IsBareRepo(p.repoPath)
          THEN web' = [w EXCEPT !.status = 404, !.by = "exists"]
          ELSE \E a \in BackendAnswers :
                   web' = [w EXCEPT !.status = a, !.by = "cgi", !.ran = TRUE]
    /\ UNCHANGED <<busVars, loggerVars, brokerVars, now, proc, http, replay, registry, ipc>>

\* loggingMiddleware after next.ServeHTTP returned: the record, unless the
\* path is /health.
LoggingExit ==
    /\ web.pc = "logged"
    /\ web' = [web EXCEPT
           !.pc = "done",
           !.alog = IF web.path # HealthPath
                    THEN [method |-> web.req.method, path |-> web.path,
                          status |-> web.status]
                    ELSE NoRecord]
    /\ UNCHANGED <<busVars, loggerVars, brokerVars, now, proc, http, replay, registry, ipc>>

\* ------------------------------------------------------------------ the rewrite alone
Segments == {"", "lgh", "repo.git", "lgh.git", ".git", "info", "owner"}

RECURSIVE PathsOf(_)
PathsOf(n) ==
    IF n = 0 THEN {<<>>}
    ELSE PathsOf(n - 1)
         \cup {Append(q, x) : q \in {r \in PathsOf(n - 1) : Len(r) = n - 1},
                              x \in Segments}

\* Every path of at most MaxSegs segments after its leading slash, and the
\* empty path.
AllPaths == {EmptyPath} \cup {<<"">> \o q : q \in PathsOf(MaxSegs) \ {<<>>}}

Settings ==
    [readOnly : BOOLEAN, authEnabled : BOOLEAN, user : {"", "admin"},
     hash : {NoHash, Salted("secret", "na"), Simple("secret")}]

PlainSettings ==
    [readOnly |-> FALSE, authEnabled |-> FALSE, user |-> "", hash |-> NoHash]

InitRewrite ==
    /\ handlers = <<>>
    /\ th = [t \in Threads |-> Idle]
    /\ nextId = 0
    /\ callLog = [id \in 1..MaxEvents |-> <<>>]
    /\ returned = {}
    /\ crashed = {}
    /\ queue = <<>>
    /\ queueClosed = FALSE
    /\ worker = [pc |-> "recv", cur |-> Idle.evt, rot |-> <<"none", "none">>]
    /\ file = [ino |-> 1, open |-> TRUE]
    /\ fs = [log |-> 1, bak |-> [s \in 0..MaxClock |-> 0]]
    /\ inodes = << <<>> >>
    /\ now = 0
    /\ faulty = FALSE
    /\ handleLog = <<>>
    /\ wrote = <<>>
    /\ clients = {}
    /\ chanBuf = [c \in Chans |-> <<>>]
    /\ chanClosed = [c \in Chans |-> FALSE]
    /\ registry = NoRegistry
    /\ ipc = NoIpc
    /\ made = 0
    /\ recv = [c \in Chans |-> Idle.evt]
    /\ missed = [c \in Chans |-> 0]
    /\ closer = "idle"
    /\ proc = [main |-> "serving", sig |-> "waiting", alive |-> TRUE, atSig |-> {}]
    /\ http = [t \in Threads |-> [req |-> NoReq, status |-> 0]]
    /\ replay = NoReplay
    /\ \E q \in AllPaths :
          web = [Quiet(PlainSettings) EXCEPT !.pc = "owner", !.path = q,
                                             !.req.path = q, !.req.method = "GET"]

NextRewrite == VirtualOwner

SpecRewrite == InitRewrite /\ [][NextRewrite]_vars

\* The path has a leading slash, then the segment lgh, then a segment
\* ending in .git.
VirtualOwnerShape(path) ==
    /\ Len(path) >= 3
    /\ path[1] = ""
    /\ path[2] = "lgh"
    /\ HasSuffixGit(path[3])

SamplePaths ==
    {HealthPath, DebugPath,
     <<"", "">>,
     <<"", "info", "refs">>,
     <<"", "git-receive-pack">>,
     <<"", "repo.git", "info", "refs">>,
     <<"", "repo.git", "git-upload-pack">>,
     <<"", "repo.git", "git-receive-pack">>,
     <<"", "gone.git", "info", "refs">>,
     <<"", "gone.git", "git-receive-pack">>,
     <<"", "work.git", "info", "refs">>,
     <<"", "git-receive-pack.git", "info", "refs">>,
     <<"", "lgh", "repo.git", "info", "refs">>,
     <<"", "lgh", "repo.git", "git-receive-pack">>,
     <<"", "owner", "repo.git", "info", "refs">>}

Credentials ==
    {NoAuth, Basic("admin", "secret"), Basic("admin", "guess"), Basic("eve", "secret")}

Requests ==
    [method : Methods, path : SamplePaths, service : {"", "git-receive-pack"},
     auth : Credentials,
     remote : {[form |-> "hostport", host |-> h] : h \in {"127.0.0.1", "192.168.1.7"}},
     body : {[valid |-> TRUE, evt |-> Stored(1)]}]

\* The server has started with some configuration and no IPC client.
InitGateway ==
    /\ handlers = <<"broker">>
    /\ th = [t \in Threads |-> Idle]
    /\ nextId = 0
    /\ callLog = [id \in 1..MaxEvents |-> <<>>]
    /\ returned = {}
    /\ crashed = {}
    /\ queue = <<>>
    /\ queueClosed = FALSE
    /\ worker = [pc |-> "recv", cur |-> Idle.evt, rot |-> <<"none", "none">>]
    /\ file = [ino |-> 1, open |-> TRUE]
    /\ fs = [log |-> 1, bak |-> [s \in 0..MaxClock |-> 0]]
    /\ inodes = << <<>> >>
    /\ now = 0
    /\ faulty = FALSE
    /\ handleLog = <<>>
    /\ wrote = <<>>
    /\ clients = {}
    /\ chanBuf = [c \in Chans |-> <<>>]
    /\ chanClosed = [c \in Chans |-> FALSE]
    /\ registry = NoRegistry
    /\ ipc = NoIpc
    /\ made = 0
    /\ recv = [c \in Chans |-> Idle.evt]
    /\ missed = [c \in Chans |-> 0]
    /\ closer = "idle"
    /\ proc = [main |-> "serving", sig |-> "waiting", alive |-> TRUE, atSig |-> {}]
    /\ http = [t \in Threads |-> [req |-> NoReq, status |-> 0]]
    /\ replay = NoReplay
    /\ \E cfg \in Settings : web = Quiet(cfg)

NextGateway ==
    \/ \E req \in Requests : WebArrive(req)
    \/ Mux
    \/ DebugHandle(1)
    \/ DebugEnd(1)
    \/ DebugAnswered
    \/ AuthWrap
    \/ LoggingEnter
    \/ VirtualOwner
    \/ BackendServe
    \/ LoggingExit
    \/ WebDone

SpecGateway == InitGateway /\ [][NextGateway]_vars

\* Backend.ServeHTTP has answered the request.
Served == web.pc \in {"logged", "done"} /\ web.by \in {"parse", "readonly", "exists", "cgi"}

\* A POST whose path names receive-pack or whose service value is
\* git-receive-pack.
NamesReceivePack(path) ==
    \E i \in 1..Len(path) : path[i] \in {"git-receive-pack", "git-receive-pack.git"}

PushRequest ==
    /\ web.req.method = "POST"
    /\ NamesReceivePack(web.path) \/ web.req.service = "git-receive-pack"

\* The path has the form /{name}.git...
RepoShape(path) ==
    Len(path) >= 2 /\ path[1] = "" /\ HasSuffixGit(path[2]) /\ path[2] # ".git"

\* A POST on a repository path whose part after the repository names
\* receive-pack, or whose service value is git-receive-pack.
RepoPush ==
    /\ web.req.method = "POST"
    /\ RepoShape(web.path)
    /\ \/ NamesReceivePack(SubSeq(web.path, 3, Len(web.path)))
       \/ web.req.service = "git-receive-pack"

\* C15 as stated: in read-only mode every push request is answered 403 and
\* never reaches the backend; the gate rejects no other request, and none
\* when read-only mode is off.
C15_PushForbidden ==
    Served =>
        /\ (web.cfg.readOnly /\ PushRequest) => (web.status = 403 /\ ~web.ran)
        /\ ~PushRequest => web.by # "readonly"
        /\ ~web.cfg.readOnly => web.by # "readonly"

\* C15, amended: in read-only mode every push request on a repository path
\* /{name}.git... is answered 403 by the gate and never reaches the backend,
\* whether the repository exists or not; a POST that names receive-pack
\* outside such a path never reaches the backend either; the gate rejects
\* no other request, and none when read-only mode is off.
C15_RepoPushForbidden ==
    Served =>
        /\ (web.cfg.readOnly /\ RepoPush)
              => (web.status = 403 /\ web.by = "readonly" /\ ~web.ran)
        /\ (web.cfg.readOnly /\ PushRequest) => ~web.ran
        /\ ~RepoPush => web.by # "readonly"
        /\ ~web.cfg.readOnly => web.by # "readonly"

\* In read-only mode a push to a repository that does not exist was
\* answered 403.
C15_Witness ==
    /\ Served
    /\ web.cfg.readOnly
    /\ web.req.method = "POST"
    /\ web.path = <<"", "gone.git", "git-receive-pack">>
    /\ web.status = 403

\* C16: a request for /{repo}.git/... whose repository is no bare
\* repository under the root, and which the read-only gate did not reject,
\* is answered 404 without the backend being started; a path that is not
\* of the form /{name}.git... is answered 400 without the backend.
C16_MissingRepoNotFound ==
    Served =>
        /\ (/\ RepoShape(web.path)
            /\ ~(web.path[2] \in DOMAIN ReposDir /\ ReposDir[web.path[2]] = "bare")
            /\ web.by # "readonly")
              => (web.status = 404 /\ web.by = "exists" /\ ~web.ran)
        /\ ~RepoShape(web.path)
              => (web.status = 400 /\ web.by = "parse" /\ ~web.ran)

\* A request for a repository with a work tree was answered 404.
C16_Witness ==
    /\ Served
    /\ web.path = <<"", "work.git", "info", "refs">>
    /\ web.status = 404
    /\ ~web.ran

\* The configuration asks for authentication.
Configured(cfg) == cfg.authEnabled /\ cfg.user # "" /\ cfg.hash # NoHash

\* The request carries the configured username and the password the
\* stored hash was made from.
GoodCredentials == web.req.auth = Basic("admin", "secret")

\* C17: the backend program is started for a request only if the request
\* passed every gate: valid credentials when authentication is enabled, no
\* push in read-only mode, and a path that names an existing bare
\* repository; and a gate answers only what the gates before it let pass.
C17_BackendBehindGates ==
    /\ web.pc # "idle" /\ web.ran =>
          /\ Configured(web.cfg) => GoodCredentials
          /\ ~(web.cfg.readOnly /\ RepoPush)
          /\ RepoShape(web.path)
          /\ web.path[2] \in DOMAIN ReposDir /\ ReposDir[web.path[2]] = "bare"
    /\ web.pc # "idle" /\ web.by \in {"parse", "readonly", "exists"} =>
          (Configured(web.cfg) => GoodCredentials)
    /\ web.pc # "idle" /\ web.by = "exists" => ~(web.cfg.readOnly /\ RepoPush)

\* With authentication and read-only mode on, a fetch with the right
\* credentials reached the backend.
C17_Witness ==
    /\ web.pc = "done"
    /\ web.ran
    /\ Configured(web.cfg)
    /\ web.cfg.readOnly
    /\ web.req.path = <<"", "lgh", "repo.git", "info", "refs">>

\* C18: with authentication enabled, a request to a path other than
\* /health and /debug/events reaches the inner handlers exactly when it
\* carries the configured username and a password that verifies against
\* the stored hash; every other such request gets the same 401 with the
\* WWW-Authenticate challenge.  /health and /debug/events are served
\* without credentials.
C18_AuthGuardsInner ==
    (web.pc \in {"logging", "owner", "backend", "logged", "done"} /\ Configured(web.cfg)) =>
        IF web.req.path \in {HealthPath, DebugPath}
        THEN /\ web.by \in {"health", "debug"}
             /\ web.status # 401
             /\ web.req.path = HealthPath => web.status = 200
        ELSE /\ GoodCredentials <=> (web.pc # "done" \/ web.by # "auth")
             /\ ~GoodCredentials =>
                   /\ web.pc = "done"
                   /\ web.status = 401
                   /\ web.hdr = Challenge
                   /\ web.by = "auth"
                   /\ ~web.ran
                   /\ web.alog = NoRecord

\* The right username with a wrong password was answered 401.
C18_Witness ==
    /\ web.pc = "done"
    /\ Configured(web.cfg)
    /\ web.req.auth = Basic("admin", "guess")
    /\ web.req.path = <<"", "repo.git", "info", "refs">>
    /\ web.status = 401

\* ------------------------------------------------------------------ /debug/events: answers
\* The request comes from 127.0.0.1 or ::1.
FromLoopback(req) ==
    req.remote.form = "hostport" /\ req.remote.host \in {"127.0.0.1", "::1"}

\* Some subscriber's buffer holds other events than before.
BuffersChange == \E c \in Chans : chanBuf'[c] # chanBuf[c] /\ Len(chanBuf'[c]) >= Len(chanBuf[c])

\* C20: the debug endpoint answers 405 to every request that is not a POST,
\* 400 to a loopback POST whose body does not decode, and 200 to a loopback
\* POST with a decodable Event.  Only the request answered 200 runs
\* Broadcast, once, before the answer; a rejected request leaves every
\* subscriber's buffer as it is.
C20_DebugAnswers ==
    /\ [](\A t \in Threads : http[t].status # 0 =>
             LET req == http[t].req
             IN /\ req.method # "POST" => http[t].status = 405
                /\ (req.method = "POST" /\ FromLoopback(req) /\ ~req.body.valid)
                      => http[t].status = 400
                /\ (req.method = "POST" /\ FromLoopback(req) /\ req.body.valid)
                      => http[t].status = 200)
    /\ [][\A t \in Threads :
             /\ (th'[t].pc = "bcast" /\ th[t].pc # "bcast") =>
                   /\ http[t].status = 0
                   /\ http[t].req.method = "POST"
                   /\ FromLoopback(http[t].req)
                   /\ http[t].req.body.valid
                   /\ th'[t].todo = clients
             /\ (http'[t].status = 200 /\ http[t].status = 0) =>
                   (th[t].pc = "bcast" /\ th[t].todo = {} /\ th'[t].pc = "idle")
             /\ (http'[t].status \notin {0, 200} /\ http[t].status = 0) =>
                   (th[t].pc = "idle" /\ UNCHANGED <<th, brokerVars>>)]_vars
    /\ [][BuffersChange => \E t \in Threads : th[t].pc = "bcast" /\ http[t].status = 0]_vars

\* A loopback POST with an undecodable body was answered 400 while a
\* subscriber's buffer held the event of an earlier, accepted request.
C20_Witness ==
    /\ http[1].status = 400
    /\ http[1].req.method = "POST"
    /\ FromLoopback(http[1].req)
    /\ \E c \in clients : chanBuf[c] # <<>>

\* ------------------------------------------------------------------ /debug/events: the loopback boundary
\* C21 as stated: every request to the debug endpoint from a remote address
\* that is not a loopback address is answered 403, whatever its method and
\* payload.
C21_ForeignAlways403 ==
    \A t \in Threads :
        (http[t].req # NoReq /\ ~FromLoopback(http[t].req) /\ http[t].status # 0)
            => http[t].status = 403

\* C21, amended: a request from a remote address that is not a loopback
\* address is never accepted: a POST is answered 403 whatever its payload,
\* any other method 405 (the method is looked at first), and none of them
\* starts a Broadcast.
C21_ForeignNeverAccepted ==
    \A t \in Threads :
        (http[t].req # NoReq /\ ~FromLoopback(http[t].req)) =>
            /\ th[t].pc # "bcast"
            /\ http[t].status # 0 =>
                  http[t].status = (IF http[t].req.method = "POST" THEN 403 ELSE 405)

\* A GET from another host has been answered 405, with a subscriber
\* registered.
C21_Witness ==
    /\ http[1].status = 405
    /\ http[1].req.method = "GET"
    /\ http[1].req.remote = [form |-> "hostport", host |-> "192.168.1.7"]
    /\ clients # {}

\* ------------------------------------------------------------------ the registry and the add / remove commands
\* CLI processes (lgh add, lgh remove) that may run at the same time.
MaxProcs == 2
\* Commands started during one run.
MaxCommands == 2

Procs == 1..MaxProcs

\* Repository names, split at the dots: "demo.git", "lib".
Names == { <<"demo", "git">>, <<"lib">> }

\* filepath.Ext: the last dot-separated part, if there is a dot.
Ext(name) == IF Len(name) > 1 THEN name[Len(name)] ELSE ""

\* The directory name of the bare repository of a name (runAdd).
bareRepoNameAsIs(name) == name

bareRepoName(name) == IF Ext(name) # "git" THEN Append(name, "git") ELSE name

\* A process that runs no command.
NoCommand == [pc |-> "idle", op |-> "", name |-> <<>>, force |-> FALSE,
              keepBare |-> FALSE, mappings |-> <<>>, barePath |-> <<>>,
              res |-> "", overlap |-> FALSE]

\* The state after `lgh init`: an empty mappings file, an empty repos
\* directory, the lock file free.
\*   pc    "on": CLI commands run
\*   file  the entries of mappings.yaml, in order
\*   disk  the bare repositories under the repos directory
\*   lock  the process holding the flock on mappings.yaml.lock, or 0
\*   cmd   the command each process runs; overlap records whether another
\*         command ran while it did
\*   ran   the number of commands started
Initialized == [pc |-> "on", file |-> <<>>, disk |-> {}, lock |-> 0,
                cmd |-> [p \in Procs |-> NoCommand], ran |-> 0]

\* The registries that earlier commands, run one after the other, have left:
\* one entry and one bare repository for each name of a list.
Registered(names) ==
    [Initialized EXCEPT
        !.file = [i \in 1..Len(names) |->
                     [name |-> names[i], barePath |-> bareRepoName(names[i])]],
        !.disk = { bareRepoName(names[i]) : i \in 1..Len(names) }]

Earlier == { <<>>, << <<"lib">> >> }

Running(c) == c.pc \notin {"idle", "done"}

\* The names registered in a list of mappings.
Listed(mappings) == { mappings[i].name : i \in 1..Len(mappings) }

\* The entry of a name in a list of mappings (Find's loop).
Entry(mappings, name) ==
    mappings[CHOOSE i \in 1..Len(mappings) :
                 /\ mappings[i].name = name
                 /\ \A j \in 1..(i - 1) : mappings[j].name # name]

\* The entries of other names (Remove's loop).
RECURSIVE Without(_, _)
Without(mappings, name) ==
    IF mappings = <<>> THEN <<>>
    ELSE IF Head(mappings).name = name THEN Without(Tail(mappings), name)
    ELSE <<Head(mappings)>> \o Without(Tail(mappings), name)

\* A command starts: the commands that are running overlap with it.
Start(p, c) ==
    [q \in Procs |->
        IF q = p THEN [c EXCEPT !.overlap = \E r \in Procs \ {p} : Running(registry.cmd[r])]
        ELSE IF Running(registry.cmd[q]) THEN [registry.cmd[q] EXCEPT !.overlap = TRUE]
        ELSE registry.cmd[q]]

\* The command returns: its process keeps nothing but the outcome.
Returned(c, res) == [c EXCEPT !.pc = "done", !.res = res, !.mappings = <<>>]

Failed(c, why) == Returned(c, why)

RegFrame == UNCHANGED <<busVars, loggerVars, brokerVars, now, proc, http, replay, web, ipc>>

\* runAdd up to the name: the path must be a git repository.
RunAdd(p, name, source) ==
    /\ registry.pc # "off"
    /\ registry.cmd[p].pc = "idle"
    /\ registry.ran < MaxCommands
    /\ LET c == [NoCommand EXCEPT !.op = "add", !.name = name, !.barePath = bareRepoName(name),
                                  !.pc = "Exists"]
       IN  registry' = [registry EXCEPT
               !.ran = @ + 1,
               !.cmd = Start(p, IF source = "repo" THEN c ELSE Failed(c, "not a git repository"))]
    /\ RegFrame

\* FileLock.Lock: flock(LOCK_EX) on mappings.yaml.lock, at the start of
\* load and of save; it waits while another process holds the lock.
LockPoints == {"Exists", "Add", "Find", "Remove", "save"}

FileLockLock(p) ==
    /\ registry.pc # "off"
    /\ registry.cmd[p].pc \in LockPoints
    /\ registry.lock = 0
    /\ registry' = [registry EXCEPT !.lock = p]
    /\ RegFrame

\* reg.Exists(name): load under the lock, unlock, look for the name.
AddExists(p) ==
    /\ registry.pc # "off"
    /\ registry.cmd[p].pc = "Exists"
    /\ registry.lock = p
    /\ registry' = [registry EXCEPT
           !.lock = 0,
           !.cmd[p] = IF @.name \in Listed(registry.file)
                      THEN Failed(@, "already registered")
                      ELSE [@ EXCEPT !.pc = "Stat"]]
    /\ RegFrame

\* os.Stat(barePath): the bare repository must not exist yet.
AddStat(p) ==
    /\ registry.pc # "off"
    /\ registry.cmd[p].pc = "Stat"
    /\ registry' = [registry EXCEPT
           !.cmd[p] = IF @.barePath \in registry.disk
                      THEN Failed(@, "bare repository already exists")
                      ELSE [@ EXCEPT !.pc = "InitBareRepo"]]
    /\ RegFrame

\* git.InitBareRepo(barePath), first part: os.Stat once more, an existing
\* path is an error that runAdd returns.
AddInitBareRepo(p) ==
    /\ registry.pc # "off"
    /\ registry.cmd[p].pc = "InitBareRepo"
    /\ registry' = [registry EXCEPT
           !.cmd[p] = IF @.barePath \in registry.disk
                      THEN Failed(@, "bare repository already exists")
                      ELSE [@ EXCEPT !.pc = "git init"]]
    /\ RegFrame

\* git.InitBareRepo(barePath), second part: `git init --bare`, which also
\* succeeds on a bare repository that has appeared since the check.
AddGitInit(p) ==
    /\ registry.pc # "off"
    /\ registry.cmd[p].pc = "git init"
    /\ registry' = [registry EXCEPT
           !.disk = @ \union {registry.cmd[p].barePath},
           !.cmd[p].pc = "Add"]
    /\ RegFrame

\* Registry.Add up to save: load under the lock, unlock, refuse a name that
\* is there, append the entry.
RegistryAdd(p) ==
    /\ registry.pc # "off"
    /\ registry.cmd[p].pc = "Add"
    /\ registry.lock = p
    /\ registry' = [registry EXCEPT
           !.lock = 0,
           !.cmd[p] = IF @.name \in Listed(registry.file)
                      THEN [@ EXCEPT !.pc = "cleanup"]
                      ELSE [@ EXCEPT !.pc = "save",
                                     !.mappings = Append(registry.file,
                                                     [name |-> registry.cmd[p].name,
                                                      barePath |-> registry.cmd[p].barePath])]]
    /\ RegFrame

\* runAdd when Registry.Add failed: os.RemoveAll(barePath), return the error.
AddCleanup(p) ==
    /\ registry.pc # "off"
    /\ registry.cmd[p].pc = "cleanup"
    /\ registry' = [registry EXCEPT
           !.disk = @ \ {registry.cmd[p].barePath},
           !.cmd[p] = Failed(@, "failed to register repository")]
    /\ RegFrame

\* Registry.save: write the mappings under the lock, unlock; the command
\* reports success.
RegistrySave(p) ==
    /\ registry.pc # "off"
    /\ registry.cmd[p].pc = "save"
    /\ registry.lock = p
    /\ registry' = [registry EXCEPT
           !.lock = 0,
           !.file = registry.cmd[p].mappings,
           !.cmd[p] = Returned(@, "ok")]
    /\ RegFrame

\* runRemove up to reg.Find.
RunRemove(p, name, force, keepBare) ==
    /\ registry.pc # "off"
    /\ registry.cmd[p].pc = "idle"
    /\ registry.ran < MaxCommands
    /\ registry' = [registry EXCEPT
           !.ran = @ + 1,
           !.cmd = Start(p, [NoCommand EXCEPT !.op = "remove", !.name = name, !.force = force,
                                              !.keepBare = keepBare, !.pc = "Find"])]
    /\ RegFrame

\* reg.Find(name): load under the lock, unlock, take the entry of the name.
\* Its bare path was written by runAdd and lies in the repos directory, so
\* isPathSafe lets it pass.
RemoveFind(p) ==
    /\ registry.pc # "off"
    /\ registry.cmd[p].pc = "Find"
    /\ registry.lock = p
    /\ registry' = [registry EXCEPT
           !.lock = 0,
           !.cmd[p] = IF @.name \notin Listed(registry.file)
                      THEN Failed(@, "not found")
                      ELSE [@ EXCEPT !.barePath = Entry(registry.file, registry.cmd[p].name).barePath,
                                     !.pc = IF registry.cmd[p].force THEN "delete" ELSE "confirm"]]
    /\ RegFrame

\* Without --force the command asks; any answer but y cancels it, and the
\* command returns nil.
RemoveConfirm(p, yes) ==
    /\ registry.pc # "off"
    /\ registry.cmd[p].pc = "confirm"
    /\ registry' = [registry EXCEPT
           !.cmd[p] = IF yes THEN [@ EXCEPT !.pc = "delete"]
                      ELSE Returned(@, "cancelled")]
    /\ RegFrame

\* Without --keep-bare the bare repository is deleted, if it is one
\* (os.RemoveAll is taken to succeed).
RemoveDelete(p) ==
    /\ registry.pc # "off"
    /\ registry.cmd[p].pc = "delete"
    /\ registry' = [registry EXCEPT
           !.disk = IF registry.cmd[p].keepBare THEN @ ELSE @ \ {registry.cmd[p].barePath},
           !.cmd[p].pc = "Remove"]
    /\ RegFrame

\* Registry.Remove up to save: load under the lock, unlock, drop the
\* entries of the name.
RegistryRemove(p) ==
    /\ registry.pc # "off"
    /\ registry.cmd[p].pc = "Remove"
    /\ registry.lock = p
    /\ registry' = [registry EXCEPT
           !.lock = 0,
           !.cmd[p] = IF @.name \notin Listed(registry.file)
                      THEN Failed(@, "not found")
                      ELSE [@ EXCEPT !.pc = "save",
                                     !.mappings = Without(registry.file, registry.cmd[p].name)]]
    /\ RegFrame

\* The processes that ran have exited; the next commands start afresh.
CommandsExit ==
    /\ registry.pc # "off"
    /\ \E p \in Procs : registry.cmd[p].pc = "done"
    /\ \A p \in Procs : ~Running(registry.cmd[p])
    /\ registry' = [registry EXCEPT !.cmd = [p \in Procs |-> NoCommand]]
    /\ RegFrame

Still ==
    /\ handlers = <<>>
    /\ th = [t \in Threads |-> Idle]
    /\ nextId = 0
    /\ callLog = [id \in 1..MaxEvents |-> <<>>]
    /\ returned = {}
    /\ crashed = {}
    /\ queue = <<>>
    /\ queueClosed = FALSE
    /\ worker = [pc |-> "recv", cur |-> Idle.evt, rot |-> <<"none", "none">>]
    /\ file = [ino |-> 1, open |-> TRUE]
    /\ fs = [log |-> 1, bak |-> [s \in 0..MaxClock |-> 0]]
    /\ inodes = << <<>> >>
    /\ now = 0
    /\ faulty = FALSE
    /\ handleLog = <<>>
    /\ wrote = <<>>
    /\ clients = {}
    /\ chanBuf = [c \in Chans |-> <<>>]
    /\ chanClosed = [c \in Chans |-> FALSE]
    /\ made = 0
    /\ recv = [c \in Chans |-> Idle.evt]
    /\ missed = [c \in Chans |-> 0]
    /\ closer = "idle"
    /\ proc = [main |-> "serving", sig |-> "waiting", alive |-> TRUE, atSig |-> {}]
    /\ http = [t \in Threads |-> [req |-> NoReq, status |-> 0]]
    /\ replay = NoReplay
    /\ web = NoWeb

InitRegistry ==
    /\ Still
    /\ \E names \in Earlier : registry = Registered(names)
    /\ ipc = NoIpc

NextRegistry ==
    \/ \E p \in Procs, name \in Names, source \in {"repo", "plain"} : RunAdd(p, name, source)
    \/ \E p \in Procs, name \in Names, force \in BOOLEAN, keepBare \in BOOLEAN :
           RunRemove(p, name, force, keepBare)
    \/ \E p \in Procs : FileLockLock(p)
    \/ \E p \in Procs : AddExists(p)
    \/ \E p \in Procs : AddStat(p)
    \/ \E p \in Procs : AddInitBareRepo(p)
    \/ \E p \in Procs : AddGitInit(p)
    \/ \E p \in Procs : RegistryAdd(p)
    \/ \E p \in Procs : AddCleanup(p)
    \/ \E p \in Procs : RegistrySave(p)
    \/ \E p \in Procs : RemoveFind(p)
    \/ \E p \in Procs, yes \in BOOLEAN : RemoveConfirm(p, yes)
    \/ \E p \in Procs : RemoveDelete(p)
    \/ \E p \in Procs : RegistryRemove(p)
    \/ CommandsExit

SpecRegistry == InitRegistry /\ [][NextRegistry]_vars

\* The effect of a command that reported success is in the mappings file.
Effect(c) ==
    IF c.op = "add" THEN c.name \in Listed(registry.file) ELSE c.name \notin Listed(registry.file)

Succeeded(c) == c.pc = "done" /\ c.res = "ok"

\* C22: when two processes ran Add, or Add and Remove, at the same time on
\* different names and both reported success, the mappings file holds the
\* effect of both; and no two entries of the file have the same name.
C22_NoLostUpdate ==
    registry.pc = "on" =>
        /\ \A p, q \in Procs :
               (/\ p # q
                /\ Succeeded(registry.cmd[p]) /\ registry.cmd[p].overlap
                /\ Succeeded(registry.cmd[q]) /\ registry.cmd[q].overlap
                /\ registry.cmd[p].op = "add"
                /\ registry.cmd[p].name # registry.cmd[q].name)
                   => (Effect(registry.cmd[p]) /\ Effect(registry.cmd[q]))
        /\ \A i, j \in 1..Len(registry.file) :
               registry.file[i].name = registry.file[j].name => i = j

\* ------------------------------------------------------------------ add, remove and the listing
\* A command of process p ends in this step, and no other command ran while
\* it did.
EndsAlone(p) ==
    /\ registry.cmd[p].pc # "done"
    /\ registry'.cmd[p].pc = "done"
    /\ ~registry'.cmd[p].overlap

\* What a command run on its own leaves behind, given the directory name
\* dir(N) of the bare repository of a name N:
\*   a successful add of N leaves dir(N) in the repos directory and N listed;
\*   a successful remove N --force without --keep-bare leaves neither;
\*   an add of a listed name changes neither file nor directory, and fails.
Reflects(p, dir) ==
    LET c == registry.cmd[p]
        d == registry'.cmd[p]
    IN  /\ (EndsAlone(p) /\ d.op = "add" /\ d.res = "ok") =>
               /\ d.name \in Listed(registry'.file)
               /\ dir \in registry'.disk
        /\ (EndsAlone(p) /\ d.op = "remove" /\ d.res = "ok" /\ d.force /\ ~d.keepBare) =>
               /\ d.name \notin Listed(registry'.file)
               /\ dir \notin registry'.disk
        /\ (Running(c) /\ c.op = "add" /\ ~c.overlap /\ c.name \in Listed(registry.file)) =>
               /\ registry'.file = registry.file
               /\ registry'.disk = registry.disk
               /\ d.pc = "done" => d.res \notin {"ok", "cancelled"}

Classes == {"owner", "group", "other"}

\* The umasks the server may run under, as the classes whose write bit the
\* umask clears: 022 or 077, 002, 000.
Umasks == { {"group", "other"}, {"other"}, {} }

\* bind(2) in net.Listen("unix", sockPath) creates the socket file with
\* mode 0777 &^ umask.
ModeAfterBind(umask) == Classes \ umask

\* os.Chmod(sockPath, 0600).
ModeAfterChmod == {"owner"}

\* A connection slot that no client has used.
NoConn == [pc |-> "none", who |-> "", peer |-> "none", ch |-> 0]

\* Server.Start is about to call startIPC.
\*   pc        position in startIPC, then "Accept": the accept loop runs
\*   sock      the file at sockPath: "none", "stale" (left by an earlier
\*             run), "bound"
\*   mode      the classes that may connect to the socket file
\*   listener  "none" or "open"
\*   pending   the peers whose connect(2) succeeded and that Accept has not
\*             returned yet
\*   conn      per accepted connection: the position of handleIPCConnection,
\*             the class of its peer, whether the peer still holds its end,
\*             and the handler's Broker channel
\*   accepted  the number of connections Accept has returned
Starting(stale, umask) ==
    [pc |-> "Stat", sock |-> IF stale THEN "stale" ELSE "none", mode |-> {},
     umask |-> umask, listener |-> "none", pending |-> <<>>,
     conn |-> [k \in Chans |-> NoConn], accepted |-> 0]

IpcFrame == UNCHANGED <<busVars, loggerVars, now, proc, http, replay, web, registry>>

\* startIPC: os.Stat(sockPath).
IpcStat ==
    /\ proc.alive
    /\ ipc.pc = "Stat"
    /\ ipc' = [ipc EXCEPT !.pc = IF ipc.sock # "none" THEN "Remove" ELSE "Listen"]
    /\ UNCHANGED brokerVars
    /\ IpcFrame

\* startIPC: os.Remove(sockPath); if it fails startIPC returns.
IpcRemove(ok) ==
    /\ proc.alive
    /\ ipc.pc = "Remove"
    /\ ipc' = IF ok THEN [ipc EXCEPT !.pc = "Listen", !.sock = "none"]
              ELSE [ipc EXCEPT !.pc = "failed"]
    /\ UNCHANGED brokerVars
    /\ IpcFrame

\* startIPC: net.Listen("unix", sockPath) binds the socket file and listens;
\* from here connect(2) succeeds for those the file's mode lets in.
IpcListen ==
    /\ proc.alive
    /\ ipc.pc = "Listen"
    /\ ipc' = IF ipc.sock # "none" THEN [ipc EXCEPT !.pc = "failed"]
              ELSE [ipc EXCEPT !.pc = "Chmod", !.sock = "bound", !.listener = "open",
                               !.mode = ModeAfterBind(ipc.umask)]
    /\ UNCHANGED brokerVars
    /\ IpcFrame

\* startIPC: os.Chmod(sockPath, 0600); a failure is a warning only.  Then the
\* accept loop is started.
IpcChmod(ok) ==
    /\ proc.alive
    /\ ipc.pc = "Chmod"
    /\ ipc' = [ipc EXCEPT !.pc = "Accept",
                          !.mode = IF ok THEN ModeAfterChmod ELSE @]
    /\ UNCHANGED brokerVars
    /\ IpcFrame

\* A local process of a user of class who connects to the socket.
PeerConnect(who) ==
    /\ proc.alive
    /\ ipc.pc # "off"
    /\ ipc.sock = "bound"
    /\ ipc.listener = "open"
    /\ who \in ipc.mode
    /\ ipc.accepted + Len(ipc.pending) < MaxClients
    /\ ipc' = [ipc EXCEPT !.pending = Append(@, who)]
    /\ UNCHANGED brokerVars
    /\ IpcFrame

\* The accept loop: listener.Accept returns a connection, and
\* `go handleIPCConnection(conn)`.
IpcAccept ==
    /\ proc.alive
    /\ ipc.pc = "Accept"
    /\ ipc.pending # <<>>
    /\ ipc' = [ipc EXCEPT
           !.pending = Tail(@),
           !.accepted = @ + 1,
           !.conn[ipc.accepted + 1] =
               [pc |-> "SubscribeClient", who |-> Head(ipc.pending), peer |-> "open", ch |-> 0]]
    /\ UNCHANGED brokerVars
    /\ IpcFrame

\* The peer of connection k closes its end.
PeerDisconnect(k) ==
    /\ ipc.pc # "off"
    /\ ipc.conn[k].peer = "open"
    /\ ipc' = [ipc EXCEPT !.conn[k].peer = "gone"]
    /\ UNCHANGED brokerVars
    /\ IpcFrame

\* handleIPCConnection: ch := event.SubscribeClient().
HandlerSubscribe(k) ==
    /\ proc.alive
    /\ ipc.pc # "off"
    /\ ipc.conn[k].pc = "SubscribeClient"
    /\ made < MaxClients
    /\ \A t \in Threads : ~InBroadcast(t)
    /\ made' = made + 1
    /\ clients' = clients \cup {made + 1}
    /\ ipc' = [ipc EXCEPT !.conn[k].pc = "range", !.conn[k].ch = made + 1]
    /\ UNCHANGED <<chanBuf, chanClosed, recv, missed>>
    /\ IpcFrame

\* handleIPCConnection: `for evt := range ch` receives the next event, or
\* ends when the channel is closed and empty; it waits while the channel is
\* open and empty.
HandlerRange(k) ==
    /\ proc.alive
    /\ ipc.pc # "off"
    /\ ipc.conn[k].pc = "range"
    /\ LET c == ipc.conn[k].ch IN
       \/ /\ chanBuf[c] # <<>>
          /\ recv' = [recv EXCEPT ![c] = Head(chanBuf[c])]
          /\ chanBuf' = [chanBuf EXCEPT ![c] = Tail(@)]
          /\ ipc' = [ipc EXCEPT !.conn[k].pc = "Encode"]
       \/ /\ chanBuf[c] = <<>>
          /\ chanClosed[c]
          /\ ipc' = [ipc EXCEPT !.conn[k].pc = "return"]
          /\ UNCHANGED <<recv, chanBuf>>
    /\ UNCHANGED <<clients, chanClosed, made, missed>>
    /\ IpcFrame

\* handleIPCConnection: encoder.Encode(evt) writes to the connection; it
\* fails when the peer has closed its end, and the handler returns.
HandlerEncode(k) ==
    /\ proc.alive
    /\ ipc.pc # "off"
    /\ ipc.conn[k].pc = "Encode"
    /\ ipc' = [ipc EXCEPT !.conn[k].pc = IF ipc.conn[k].peer = "gone" THEN "return" ELSE "range"]
    /\ UNCHANGED brokerVars
    /\ IpcFrame

\* handleIPCConnection returns: the deferred event.UnsubscribeClient(ch) and
\* conn.Close().
HandlerReturn(k) ==
    /\ proc.alive
    /\ ipc.pc # "off"
    /\ ipc.conn[k].pc = "return"
    /\ \A t \in Threads : ~InBroadcast(t)
    /\ LET c == ipc.conn[k].ch IN
       IF c \in clients
       THEN /\ clients' = clients \ {c}
            /\ chanClosed' = [chanClosed EXCEPT ![c] = TRUE]
       ELSE UNCHANGED <<clients, chanClosed>>
    /\ ipc' = [ipc EXCEPT !.conn[k].pc = "closed"]
    /\ UNCHANGED <<chanBuf, made, recv, missed>>
    /\ IpcFrame

\* Everything but the socket: the server after event.StartBroker(), the
\* Broker being the only Bus handler.
Serving ==
    /\ handlers = <<"broker">>
    /\ th = [t \in Threads |-> Idle]
    /\ nextId = 0
    /\ callLog = [id \in 1..MaxEvents |-> <<>>]
    /\ returned = {}
    /\ crashed = {}
    /\ queue = <<>>
    /\ queueClosed = FALSE
    /\ worker = [pc |-> "recv", cur |-> Idle.evt, rot |-> <<"none", "none">>]
    /\ file = [ino |-> 1, open |-> TRUE]
    /\ fs = [log |-> 1, bak |-> [s \in 0..MaxClock |-> 0]]
    /\ inodes = << <<>> >>
    /\ now = 0
    /\ faulty = FALSE
    /\ handleLog = <<>>
    /\ wrote = <<>>
    /\ clients = {}
    /\ chanBuf = [c \in Chans |-> <<>>]
    /\ chanClosed = [c \in Chans |-> FALSE]
    /\ made = 0
    /\ recv = [c \in Chans |-> Idle.evt]
    /\ missed = [c \in Chans |-> 0]
    /\ closer = "idle"
    /\ proc = [main |-> "serving", sig |-> "waiting", alive |-> TRUE, atSig |-> {}]
    /\ http = [t \in Threads |-> [req |-> NoReq, status |-> 0]]
    /\ replay = NoReplay
    /\ web = NoWeb
    /\ registry = NoRegistry

\* The server is about to call startIPC; a socket file of an earlier run may
\* be there.
InitIpcStart ==
    /\ Serving
    /\ \E stale \in BOOLEAN, umask \in Umasks : ipc = Starting(stale, umask)

\* startIPC, and the first connections.
NextIpcStart ==
    \/ IpcStat
    \/ \E ok \in BOOLEAN : IpcRemove(ok)
    \/ IpcListen
    \/ \E ok \in BOOLEAN : IpcChmod(ok)
    \/ \E who \in Classes : PeerConnect(who)
    \/ IpcAccept
    \/ \E k \in Chans : HandlerSubscribe(k)
    \/ \E k \in Chans : PeerDisconnect(k)

SpecIpcStart == InitIpcStart /\ [][NextIpcStart]_vars

\* startIPC has returned with the listener started and the socket file
\* restricted to its owner.
InitIpc ==
    /\ Serving
    /\ ipc = [Starting(FALSE, {"group", "other"}) EXCEPT
                 !.pc = "Accept", !.sock = "bound", !.listener = "open",
                 !.mode = ModeAfterChmod]

\* The server streams events to its IPC clients, and shuts down.
NextIpc ==
    \/ PeerConnect("owner")
    \/ IpcAccept
    \/ \E k \in Chans : PeerDisconnect(k)
    \/ \E k \in Chans : HandlerSubscribe(k)
    \/ \E k \in Chans : HandlerRange(k)
    \/ \E k \in Chans : HandlerEncode(k)
    \/ \E k \in Chans : HandlerReturn(k)
    \/ proc.alive /\ PublishBegin(1, GitPush, "demo", NilPayload)
    \/ proc.alive /\ BroadcastBegin(1)
    \/ proc.alive /\ \E c \in Chans : BroadcastSend(1, c)
    \/ proc.alive /\ BroadcastEnd(1)
    \/ proc.alive /\ PublishReturn(1)
    \/ Signal
    \/ StartReturn
    \/ MainExit
    \/ StopReturn
    \/ proc.alive /\ proc.sig = "flushing" /\ CloseBegin
    \/ proc.alive /\ WorkerExit
    \/ proc.alive /\ CloseEnd
    \/ SignalExit

SpecIpc == InitIpc /\ [][NextIpc]_vars

\* ------------------------------------------------------------------ the socket file and who may connect
\* Connections can be made: the socket file is bound and listened on.
Connectable == ipc.pc # "off" /\ ipc.sock = "bound" /\ ipc.listener = "open"

\* C24: whenever the socket endpoint is bound and a process can connect to
\* it, only its owner may; a stale endpoint is removed before the new one is
\* bound, and when it cannot be removed no listener is started.
C24_SocketOwnerOnly ==
    /\ [](Connectable => ipc.mode = {"owner"})
    /\ []((ipc.pc # "off" /\ ipc.sock = "stale") => ipc.listener = "none")
    /\ [][(ipc.pc # "off" /\ ipc.sock = "stale" /\ ipc'.pc = "failed") =>
              (ipc'.listener = "none" /\ ipc'.sock = "stale")]_vars

\* ------------------------------------------------------------------ the order of the log
\* The files of the event directory, oldest first: the rotated files by
\* their timestamp, then the file at the canonical path.
RECURSIVE Backups(_)
Backups(s) ==
    IF s > MaxClock THEN <<>>
    ELSE (IF fs.bak[s] # 0 THEN <<fs.bak[s]>> ELSE <<>>) \o Backups(s + 1)

LogFiles == Backups(0) \o (IF fs.log # 0 THEN <<fs.log>> ELSE <<>>)

IsWhole(l) == Len(l) = 1

\* The ids of the complete lines of a content, in order.
LineIds(content) ==
    LET whole == SelectSeq(Lines(content), IsWhole)
    IN  [k \in 1..Len(whole) |-> whole[k][1].id]

RECURSIVE IdsOf(_)
IdsOf(files) ==
    IF files = <<>> THEN <<>> ELSE LineIds(inodes[Head(files)]) \o IdsOf(Tail(files))

\* The ids of the lines of the log, oldest first.
LogIds == IdsOf(LogFiles)

IsAccepted(h) == h.res = "accepted"

\* The ids of the events Handle accepted, in the order it enqueued them.
AcceptedOrder ==
    LET acc == SelectSeq(handleLog, IsAccepted)
    IN  [k \in 1..Len(acc) |-> acc[k].id]

\* C25: the lines of the log, read through the rotated files and then the
\* current file, are in the order in which Handle accepted their events:
\* every line is the line of an accepted event, and a line that comes before
\* another belongs to the event that was accepted before the other's.
C25_LinesInAcceptOrder ==
    LET L == LogIds
        A == AcceptedOrder
    IN  /\ \A i \in 1..Len(L) : \E a \in 1..Len(A) : A[a] = L[i]
        /\ \A i, j \in 1..Len(L) :
               i < j => \E a, b \in 1..Len(A) : a < b /\ A[a] = L[i] /\ A[b] = L[j]

\* Two goroutines published at the same time and Handle accepted the second
\* event first; the file was rotated after two lines; the three lines are in
\* the files in the order of acceptance.
C25_Witness ==
    /\ AcceptedOrder = <<2, 1, 3>>
    /\ fs.bak[0] # 0
    /\ fs.log # 0
    /\ LineIds(inodes[fs.bak[0]]) = <<2, 1>>
    /\ LineIds(inodes[fs.log]) = <<3>>

\* ------------------------------------------------------------------ rotated files
\* The lines an earlier run of the server left in the log: NewFileLogger
\* opens the file at the canonical path for appending.  They fill the file
\* up to the rotation threshold.
PriorIds == {MaxEvents + 1, MaxEvents + 2}

PriorLog == <<[id |-> MaxEvents + 1, k |-> "line"], [id |-> MaxEvents + 2, k |-> "line"]>>

\* The Logger starts on the log of an earlier run; the file system is
\* reliable.
InitRotation ==
    /\ handlers = <<"logger">>
    /\ th = [t \in Threads |-> Idle]
    /\ nextId = 0
    /\ callLog = [id \in 1..MaxEvents |-> <<>>]
    /\ returned = {}
    /\ crashed = {}
    /\ queue = <<>>
    /\ queueClosed = FALSE
    /\ worker = [pc |-> "recv", cur |-> Idle.evt, rot |-> <<"none", "none">>]
    /\ file = [ino |-> 1, open |-> TRUE]
    /\ fs = [log |-> 1, bak |-> [s \in 0..MaxClock |-> 0]]
    /\ inodes = <<PriorLog>>
    /\ now = 0
    /\ faulty = FALSE
    /\ handleLog = <<>>
    /\ wrote = <<>>
    /\ clients = {}
    /\ chanBuf = [c \in Chans |-> <<>>]
    /\ chanClosed = [c \in Chans |-> FALSE]
    /\ made = 0
    /\ recv = [c \in Chans |-> Idle.evt]
    /\ missed = [c \in Chans |-> 0]
    /\ closer = "idle"
    /\ proc = [main |-> "serving", sig |-> "waiting", alive |-> TRUE, atSig |-> {}]
    /\ http = [t \in Threads |-> [req |-> NoReq, status |-> 0]]
    /\ replay = NoReplay
    /\ web = NoWeb
    /\ registry = NoRegistry
    /\ ipc = NoIpc

NextRotation ==
    \/ \E t \in Threads : PublishBegin(t, GitPush, "demo", NilPayload)
    \/ \E t \in Threads : InvokeLogger(t)
    \/ \E t \in Threads : PublishReturn(t)
    \/ WorkerRecv
    \/ WorkerRotate
    \/ WorkerWrite
    \/ Tick

SpecRotation == InitRotation /\ [][NextRotation]_vars

\* The ids of the lines that were written to the log, in this run or before.
EverWritten ==
    {wrote[k].id : k \in {j \in 1..Len(wrote) : wrote[j].out = "ok"}}
        \union {id \in PriorIds : \E n \in Inodes : id \in {inodes[n][k].id : k \in 1..Len(inodes[n])}}

\* C26: a file produced by a rotation stays under its name with its content,
\* whatever rotations follow, and every line ever written is in exactly one
\* file of the event directory.
C26_RotatedFilesKept ==
    /\ [][\A s \in 0..MaxClock :
             fs.bak[s] # 0 =>
                 /\ fs'.bak[s] = fs.bak[s]
                 /\ inodes'[fs.bak[s]] = inodes[fs.bak[s]]]_vars
    /\ [](\A id \in EverWritten :
             Cardinality({i \in 1..Len(LogIds) : LogIds[i] = id}) = 1)

\* ------------------------------------------------------------------ failures and the worker
\* The Logger starts on the log of an earlier run, on an unreliable file
\* system: the first event it handles meets a rotation.
InitWorkerFaults ==
    /\ handlers = <<"logger">>
    /\ th = [t \in Threads |-> Idle]
    /\ nextId = 0
    /\ callLog = [id \in 1..MaxEvents |-> <<>>]
    /\ returned = {}
    /\ crashed = {}
    /\ queue = <<>>
    /\ queueClosed = FALSE
    /\ worker = [pc |-> "recv", cur |-> Idle.evt, rot |-> <<"none", "none">>]
    /\ file = [ino |-> 1, open |-> TRUE]
    /\ fs = [log |-> 1, bak |-> [s \in 0..MaxClock |-> 0]]
    /\ inodes = <<PriorLog>>
    /\ now = 0
    /\ faulty = TRUE
    /\ handleLog = <<>>
    /\ wrote = <<>>
    /\ clients = {}
    /\ chanBuf = [c \in Chans |-> <<>>]
    /\ chanClosed = [c \in Chans |-> FALSE]
    /\ made = 0
    /\ recv = [c \in Chans |-> Idle.evt]
    /\ missed = [c \in Chans |-> 0]
    /\ closer = "idle"
    /\ proc = [main |-> "serving", sig |-> "waiting", alive |-> TRUE, atSig |-> {}]
    /\ http = [t \in Threads |-> [req |-> NoReq, status |-> 0]]
    /\ replay = NoReplay
    /\ web = NoWeb
    /\ registry = NoRegistry
    /\ ipc = NoIpc

NextWorkerFaults ==
    \/ PublishBegin(1, GitPush, "demo", NilPayload)
    \/ InvokeLogger(1)
    \/ PublishReturn(1)
    \/ WorkerRecv
    \/ WorkerRotate
    \/ WorkerWrite

\* The worker goroutine is scheduled again and again; nothing is assumed
\* about when events are published.
SpecWorkerFaults ==
    /\ InitWorkerFaults
    /\ [][NextWorkerFaults]_vars
    /\ WF_vars(WorkerRecv)
    /\ WF_vars(WorkerRotate)
    /\ WF_vars(WorkerWrite)

\* C27: whatever fails in a rotation or a write, the worker does not stop
\* and no publisher notices: the worker stays in its loop, a step that meets
\* a failure takes it on to the write and back to the receive, no publisher
\* crashes, Handle accepts whenever the queue has room, and the queue is
\* emptied again and again.
C27_FailuresSwallowed ==
    /\ [](worker.pc \in {"recv", "rotate", "write"} /\ crashed = {})
    /\ [][/\ worker.pc = "rotate" => worker'.pc \in {"rotate", "write"}
          /\ worker.pc = "write" => worker'.pc \in {"write", "recv"}
          /\ \A t \in Threads :
                (HandleStep(t) /\ Len(queue) < QueueCap) =>
                    queue' = Append(queue, th[t].evt)]_vars
    /\ []<>(queue = <<>>)

\* The rotation for the first event failed (the fresh file could not be
\* opened), the write of the second failed, and the third event has been
\* accepted, taken from the queue and handed to a write.
C27_Witness ==
    /\ Len(wrote) = 3
    /\ wrote[1].rot[2] = "fail"
    /\ wrote[2].out = "none"
    /\ Accepted = {1, 2, 3}
    /\ queue = <<>>
    /\ worker.pc = "recv"

\* ------------------------------------------------------------------ unsubscribing
\* C28: the step that takes a channel out of the subscriber set closes it
\* and touches nothing else (the other subscribers stay registered and open,
\* every buffer stays as it is); once a channel is closed it stays closed and
\* unregistered, no Broadcast ranges over it or appends to its buffer, and
\* its buffer only loses the event at its head to the reader: the reader of
\* the closed channel gets the pending events in order and then finds it
\* closed and empty for good.
C28_UnsubscribeCloses ==
    /\ [](\A c \in Chans :
             chanClosed[c] =>
                 /\ c \notin clients
                 /\ \A t \in Threads : th[t].pc = "bcast" => c \notin th[t].todo)
    /\ [][\A c \in Chans :
             /\ (c \in clients /\ c \notin clients') =>
                   /\ chanClosed'[c]
                   /\ clients' = clients \ {c}
                   /\ chanBuf' = chanBuf
                   /\ \A d \in Chans \ {c} : chanClosed'[d] = chanClosed[d]
             /\ chanClosed[c] =>
                   /\ chanClosed'[c]
                   /\ chanBuf'[c] # chanBuf[c] =>
                         (chanBuf'[c] = Tail(chanBuf[c]) /\ recv'[c] = Head(chanBuf[c]))]_vars

\* Channel 1 was unsubscribed with event 1 pending; channel 2 stayed
\* registered and has received event 2, published afterwards; the reader of
\* channel 1 has taken the pending event and the channel is closed and empty.
C28_Witness ==
    /\ chanClosed[1]
    /\ 1 \notin clients
    /\ recv[1].id = 1
    /\ chanBuf[1] = <<>>
    /\ 2 \in clients
    /\ ~chanClosed[2]
    /\ recv[2].id = 2
    /\ missed[1] = 0

\* ------------------------------------------------------------------ connections and their channels
\* The goroutines of the server are scheduled again and again: the accept
\* loop, the connection handlers, a publisher inside Publish, and, once a
\* signal has arrived, the shutdown.  Nothing is assumed about when clients
\* connect or disconnect, when events are published, or when a signal
\* arrives.
SpecIpcFair ==
    /\ InitIpc
    /\ [][NextIpc]_vars
    /\ WF_vars(IpcAccept)
    /\ \A k \in Chans :
          /\ WF_vars(HandlerSubscribe(k))
          /\ WF_vars(HandlerRange(k))
          /\ WF_vars(HandlerEncode(k))
          /\ WF_vars(HandlerReturn(k))
    /\ WF_vars(proc.alive /\ BroadcastBegin(1))
    /\ WF_vars(proc.alive /\ \E c \in Chans : BroadcastSend(1, c))
    /\ WF_vars(proc.alive /\ BroadcastEnd(1))
    /\ WF_vars(proc.alive /\ PublishReturn(1))
    /\ WF_vars(StartReturn)
    /\ WF_vars(MainExit)
    /\ WF_vars(StopReturn)
    /\ WF_vars(proc.alive /\ proc.sig = "flushing" /\ CloseBegin)
    /\ WF_vars(proc.alive /\ WorkerExit)
    /\ WF_vars(proc.alive /\ CloseEnd)
    /\ WF_vars(SignalExit)

\* The handler of connection k is past SubscribeClient and has not returned.
Subscribed(k) == ipc.conn[k].pc \in {"range", "Encode", "return"}

\* C29: a connection whose handler has subscribed owns one channel of its
\* own, registered until the handler returns; and once the client of a
\* connection has disconnected, the handler ends with the channel closed and
\* out of the subscriber set, unless the server process ends first.
C29_DisconnectUnsubscribes ==
    /\ [](ipc.pc # "off" =>
             \A k \in Chans :
                 /\ Subscribed(k) =>
                       /\ ipc.conn[k].ch \in 1..made
                       /\ \A j \in Chans \ {k} : ipc.conn[j].ch # ipc.conn[k].ch
                 /\ ipc.conn[k].pc \in {"range", "Encode"} => ipc.conn[k].ch \in clients
                 /\ ipc.conn[k].pc = "closed" =>
                       (ipc.conn[k].ch \notin clients /\ chanClosed[ipc.conn[k].ch]))
    /\ \A k \in Chans :
          [](ipc.conn[k].peer = "gone" => <>(ipc.conn[k].pc = "closed" \/ ~proc.alive))

\* ------------------------------------------------------------------ shutdown and the IPC listener
\* C30: when the server process has shut down, the IPC listener was closed,
\* no connection handler is left in its streaming loop, and no subscriber
\* channel is registered.
C30_ShutdownClosesIpc ==
    (ipc.pc # "off" /\ ~proc.alive) =>
        /\ ipc.listener # "open"
        /\ \A k \in Chans : ipc.conn[k].pc \in {"none", "closed"}
        /\ clients = {}

\* ------------------------------------------------------------------ the order of the stages
\* The place of a stage in an order of stages.
Pos(order, stage) == CHOOSE i \in 1..Len(order) : order[i] = stage

\* The stages a request entered were entered in the given order.
InOrder(trace, order) ==
    \A i, j \in 1..Len(trace) : i < j => Pos(order, trace[i]) < Pos(order, trace[j])

\* The request was answered by the chain behind "/".
ChainAnswered == web.pc = "done" /\ web.by \notin {"", "health", "debug"}

\* The gates of the backend the request passed, judged on the path the
\* backend saw.
PassedParse == parseRequest(web.path).repoPath # ""
PassedReadOnly ==
    ~(web.cfg.readOnly
      /\ isPushRequest(web.req.method, parseRequest(web.path).rest, web.req.service))
PassedExists == IsBareRepo(parseRequest(web.path).repoPath)

C32_EveryRequestLogged ==
    (web.pc = "done" /\ web.req.path \notin {HealthPath, DebugPath}) =>
        /\ web.alog # NoRecord
        /\ web.alog.method = web.req.method
        /\ web.alog.status = web.status

HandleCalls(res) == {k \in 1..Len(handleLog) : handleLog[k].res = res}

\* The events the worker has received and not yet written.
HeldByWorker == IF worker.pc \in {"rotate", "write"} THEN 1 ELSE 0

\* The lines of the log that this run wrote, as positions in the log.
LinesOfRun == {i \in 1..Len(LogIds) : LogIds[i] \notin PriorIds}

\* C34: at every moment the number of Handle calls is the number of events
\* dropped on a full queue, plus the events pending in the queue or held by
\* the worker, plus the lines written to the current and the rotated files;
\* and no event has two lines.
C34_LoggerConservation ==
    /\ Len(handleLog) = Cardinality(HandleCalls("dropped")) + Len(queue)
                            + HeldByWorker + Cardinality(LinesOfRun)
    /\ \A i, j \in LinesOfRun : LogIds[i] = LogIds[j] => i = j

\* ------------------------------------------------------------------ publishing while the Logger closes
\* FileLogger.Close called again after it has returned: once.Do does
\* nothing, wg.Wait finds the worker ended, l.file is nil, the result is nil.
CloseAgain ==
    /\ closer = "closed"
    /\ WaitDone(worker)
    /\ closer' = "reclosed"
    /\ file' = IF file # NoHandle THEN NoHandle ELSE file
    /\ UNCHANGED <<queue, queueClosed, worker, fs, inodes, faulty, handleLog, wrote>>
    /\ UNCHANGED <<busVars, brokerVars, otherVars>>

\* The Logger and the Broker are the handlers of the Bus; a goroutine
\* publishes, an IPC connection subscribes and reads, and Close is called at
\* any moment, and once more after it has returned.
InitClosing == InitWith(<<"logger", "broker">>, FALSE)

NextClosing ==
    \/ PublishBegin(1, GitPush, "demo", NilPayload)
    \/ PublisherStep(1)
    \/ WorkerRecv
    \/ WorkerRotate
    \/ WorkerWrite
    \/ WorkerExit
    \/ CloseBegin
    \/ CloseEnd
    \/ CloseAgain
    \/ made < 1 /\ SubscribeClient
    \/ \E c \in Chans : ClientRead(c)

SpecClosing == InitClosing /\ [][NextClosing]_vars

\* Close has returned at least once.
CloseReturned == closer \in {"closed", "reclosed"}

\* The Logger and its files.
LoggerState == <<queue, queueClosed, worker, file, fs, inodes>>

\* C35: a Publish that runs after Close, or while Close runs, fails no
\* publisher; its Handle call leaves the queue and the files alone and the
\* loop goes on to the Broker, which ranges over the registered subscribers;
\* the call returns only after the last handler; once Close has returned
\* nothing changes the queue, the worker or the files any more, and a
\* second Close changes nothing but its own return.
C35_PublishAfterClose ==
    /\ [](crashed = {})
    /\ [][\A t \in Threads :
            /\ (HandleStep(t) /\ queueClosed) =>
                  /\ th'[t] = [th[t] EXCEPT !.i = @ + 1]
                  /\ AtHandler(t, "broker")'
                  /\ LoggerState' = LoggerState
            /\ (AtHandler(t, "broker") /\ th'[t] # th[t]) =>
                  th'[t].pc = "bcast" /\ th'[t].todo = clients
            /\ (th[t].pc # "idle" /\ th'[t].pc = "idle") =>
                  /\ th[t].i = Len(handlers)
                  /\ <<th[t].evt.id, Len(handlers)>> \in returned']_vars
    /\ [][CloseReturned =>
            /\ LoggerState' = LoggerState
            /\ closer' # closer => closer = "closed" /\ closer' = "reclosed"]_vars

\* Close has returned twice; the Handle call of an event published after
\* the queue was closed panicked, and a subscriber has received that event.
C35_Witness ==
    /\ closer = "reclosed"
    /\ \E k \in 1..Len(handleLog) :
          /\ handleLog[k].res = "panic"
          /\ \E c \in clients : recv[c].id = handleLog[k].id
    /\ \E k \in 1..Len(handleLog) : handleLog[k].res = "accepted"

\* ------------------------------------------------------------------ after a failed rotation
\* The file system works again: from now on no call fails.
Repair ==
    /\ faulty
    /\ faulty' = FALSE
    /\ UNCHANGED <<queue, queueClosed, worker, file, fs, inodes, handleLog, wrote, closer>>
    /\ UNCHANGED <<busVars, brokerVars, otherVars>>

NextRepair ==
    \/ NextWorkerFaults
    \/ Repair

\* The worker and the publishing goroutine are scheduled again and again;
\* nothing is assumed about when events are published or when the file
\* system recovers.
SpecRepair ==
    /\ InitWorkerFaults
    /\ [][NextRepair]_vars
    /\ WF_vars(WorkerRecv)
    /\ WF_vars(WorkerRotate)
    /\ WF_vars(WorkerWrite)
    /\ WF_vars(InvokeLogger(1))
    /\ WF_vars(PublishReturn(1))

\* The complete line of event id is in the file at the canonical path or in
\* a rotated file.
InLog(id) == \E i \in 1..Len(LogIds) : LogIds[i] = id

\* C36: once the file system works again, an event that Handle accepts from
\* then on gets its line in the log, also when a rotation before could not
\* open the fresh file.
C36_OpenFailureNotPermanent ==
    \A id \in 1..MaxEvents :
        [](( /\ ~faulty
             /\ \E t \in Threads : AtHandler(t, "logger") /\ th[t].evt.id = id
             /\ Len(queue) < QueueCap )
           => <>InLog(id))

\* ------------------------------------------------------------------ /debug/events behind the tunnel
\* The machines requests originate from: the gateway's own machine, and
\* machines of the local network and of the internet.
OwnMachine == {"127.0.0.1", "::1"}
OtherMachines == {"192.168.1.7", "203.0.113.9"}

\* A request sent straight to the gateway's port: r.RemoteAddr is the
\* address of the machine it originates from.
DirectArrive(t, origin, body) ==
    DebugArrive(t, [method |-> "POST",
                    remote |-> [form |-> "hostport", host |-> origin],
                    body |-> body, origin |-> origin])

\* `lgh tunnel` has started ngrok or cloudflared on the gateway's machine
\* with the gateway's port as its target: a request another machine sends to
\* the public URL is forwarded by that local process, so r.RemoteAddr is a
\* loopback address.
TunnelForward(t, origin, body) ==
    /\ origin \in OtherMachines
    /\ \E agent \in OwnMachine :
          DebugArrive(t, [method |-> "POST",
                          remote |-> [form |-> "hostport", host |-> agent],
                          body |-> body, origin |-> origin])

InitTunnel == InitWith(<<"broker">>, FALSE)

NextTunnel ==
    \/ \E o \in OwnMachine \cup OtherMachines, b \in Bodies(nextId + 1) :
          DirectArrive(1, o, b)
    \/ \E o \in OtherMachines, b \in Bodies(nextId + 1) : TunnelForward(1, o, b)
    \/ DebugHandle(1)
    \/ \E c \in Chans : BroadcastSend(1, c)
    \/ DebugEnd(1)
    \/ SubscribeClient
    \/ \E c \in Chans : ClientRead(c)

SpecTunnel == InitTunnel /\ [][NextTunnel]_vars

\* C37: a Broadcast started by /debug/events is the Broadcast of a request
\* that originates from the gateway's own machine, also when the tunnel
\* forwards requests of other machines to the local port.
C37_OnlyLocalInjects ==
    \A t \in Threads :
        (th[t].kind = "debug" /\ th[t].pc = "bcast") => http[t].req.origin \in OwnMachine

\* ------------------------------------------------------------------ the lock of the Bus
\* Bus.mu is a sync.RWMutex: Lock waits until no goroutine holds the read
\* lock, and RLock waits while a Lock call is waiting or holds the lock.
\* Handlers run inside Bus.publish, with the read lock held.  A handler of
\* kind "subscribing" calls event.Subscribe in its body, one of kind
\* "publishing" calls event.Publish for events it did not publish itself.
ReentrantKinds == {"plain", "subscribing", "publishing"}

\* Goroutine t holds the read lock.
HoldsRLock(t) ==
    th[t].kind = "publish" /\ th[t].pc \in {"pub", "bcast", "inlock", "inrlock"}

\* Goroutines inside mu.Lock().
LockWaiters == {t \in Threads : th[t].pc \in {"lockwait", "inlock"}}

\* event.Publish by a goroutine of its own: event.New, then mu.RLock().
PublishLocked(t) ==
    /\ LockWaiters = {}
    /\ PublishBegin(t, GitPush, "demo", NilPayload)

\* event.Subscribe by a goroutine of its own, up to mu.Lock().
SubscribeBegin(t, h) ==
    /\ th[t].pc = "idle"
    /\ \A u \in Threads : u < t => th[u].pc # "idle"
    /\ Len(handlers) + Cardinality(LockWaiters) < MaxHandlers
    /\ th' = [th EXCEPT ![t] = [Idle EXCEPT !.pc = "lockwait", !.kind = "subscribe",
                                            !.todo = {h}]]
    /\ UNCHANGED <<handlers, nextId, callLog, returned, crashed>>
    /\ UNCHANGED <<loggerVars, brokerVars, otherVars>>

\* mu.Lock() returns in event.Subscribe: the handler is appended and the
\* lock released; a handler body that called Subscribe returns.
SubscribeLocked(t) ==
    /\ t \in LockWaiters
    /\ \A u \in Threads : ~HoldsRLock(u)
    /\ handlers' = Append(handlers, CHOOSE h \in th[t].todo : TRUE)
    /\ th' = [th EXCEPT ![t] = IF th[t].pc = "lockwait" THEN Idle
                               ELSE [th[t] EXCEPT !.pc = "pub", !.i = @ + 1, !.todo = {}]]
    /\ UNCHANGED <<nextId, callLog, returned, crashed>>
    /\ UNCHANGED <<loggerVars, brokerVars, otherVars>>

\* Bus.publish calls a handler whose body calls event.Subscribe: the body
\* reaches mu.Lock() with the read lock of its own goroutine held.
InvokeSubscribing(t) ==
    /\ AtHandler(t, "subscribing")
    /\ callLog' = [callLog EXCEPT ![th[t].evt.id] = Append(@, th[t].i + 1)]
    /\ th' = [th EXCEPT ![t].pc = "inlock", ![t].todo = {"plain"}]
    /\ UNCHANGED <<handlers, nextId, returned, crashed>>
    /\ UNCHANGED <<loggerVars, brokerVars, otherVars>>

\* Bus.publish calls a handler whose body calls event.Publish: event.New,
\* then the body reaches mu.RLock().  Once MaxEvents events exist the body
\* publishes nothing and returns.
InvokePublishing(t) ==
    /\ AtHandler(t, "publishing")
    /\ callLog' = [callLog EXCEPT ![th[t].evt.id] = Append(@, th[t].i + 1)]
    /\ IF nextId < MaxEvents
       THEN /\ nextId' = nextId + 1
            /\ th' = [th EXCEPT ![t].pc = "inrlock", ![t].todo = {nextId + 1}]
       ELSE /\ UNCHANGED nextId
            /\ AfterHandler(t, "ok")
    /\ IF nextId < MaxEvents THEN UNCHANGED crashed ELSE TRUE
    /\ UNCHANGED <<handlers, returned>>
    /\ UNCHANGED <<loggerVars, brokerVars, otherVars>>

\* The first handler whose body calls Subscribe, 0 if there is none.
FirstSubscribing ==
    IF \E k \in 1..Len(handlers) : handlers[k] = "subscribing"
    THEN CHOOSE k \in 1..Len(handlers) :
             /\ handlers[k] = "subscribing"
             /\ \A j \in 1..(k - 1) : handlers[j] # "subscribing"
    ELSE 0

\* mu.RLock() returns in the Publish a handler body called: the inner
\* Bus.publish runs the handlers for the new event (a "publishing" handler
\* returns at once for an event of its own), up to a handler whose body
\* calls Subscribe; when it is through, the body returns to the outer loop.
NestedRLock(t) ==
    /\ th[t].pc = "inrlock"
    /\ LockWaiters = {}
    /\ LET inner == CHOOSE id \in th[t].todo : TRUE
           k == FirstSubscribing
       IN IF k = 0
          THEN /\ callLog' = [callLog EXCEPT ![inner] = UpTo(Len(handlers))]
               /\ returned' = returned \cup {<<inner, Len(handlers)>>}
               /\ th' = [th EXCEPT ![t].pc = "pub", ![t].i = @ + 1, ![t].todo = {}]
          ELSE /\ callLog' = [callLog EXCEPT ![inner] = UpTo(k)]
               /\ UNCHANGED returned
               /\ th' = [th EXCEPT ![t].pc = "inlock", ![t].todo = {"plain"}]
    /\ UNCHANGED <<handlers, nextId, crashed>>
    /\ UNCHANGED <<loggerVars, brokerVars, otherVars>>

InitReentrant == InitWith(<<>>, FALSE)

NextReentrant ==
    \/ \E t \in Threads, h \in ReentrantKinds : SubscribeBegin(t, h)
    \/ \E t \in Threads : SubscribeLocked(t)
    \/ \E t \in Threads : PublishLocked(t)
    \/ \E t \in Threads : InvokePlain(t)
    \/ \E t \in Threads : InvokeSubscribing(t)
    \/ \E t \in Threads : InvokePublishing(t)
    \/ \E t \in Threads : NestedRLock(t)
    \/ \E t \in Threads : PublishReturn(t)

\* Every goroutine that can take a step is scheduled; nothing is assumed
\* about when goroutines call Subscribe or Publish.
SpecReentrant ==
    /\ InitReentrant
    /\ [][NextReentrant]_vars
    /\ \A t \in Threads :
          /\ WF_vars(SubscribeLocked(t))
          /\ WF_vars(InvokePlain(t))
          /\ WF_vars(InvokeSubscribing(t))
          /\ WF_vars(InvokePublishing(t))
          /\ WF_vars(NestedRLock(t))
          /\ WF_vars(PublishReturn(t))

\* C38: the Bus never deadlocks: every goroutine inside Publish gets back
\* out of it, also when a handler body calls Subscribe or Publish and other
\* goroutines call Subscribe and Publish at the same time.
C38_PublishReturns ==
    \A t \in Threads : [](th[t].kind = "publish" => <>(th[t].pc = "idle"))

\* ------------------------------------------------------------------ the order observers see
\* The Logger and the Broker are the handlers of the Bus and two goroutines
\* publish at the same time; IPC connections subscribe and read.
InitOrder == InitWith(<<"logger", "broker">>, FALSE)

NextOrder ==
    \/ \E t \in Threads : PublishBegin(t, GitPush, "demo", NilPayload)
    \/ \E t \in Threads : PublisherStep(t)
    \/ WorkerRecv
    \/ WorkerRotate
    \/ WorkerWrite
    \/ SubscribeClient
    \/ \E c \in Chans : ClientRead(c)

SpecOrder == InitOrder /\ [][NextOrder]_vars

\* Subscriber c has received event a and, after it, event b: it has read a
\* and b is the next event in its channel.
ReceivedBefore(c, a, b) ==
    /\ recv[c].id = a
    /\ chanBuf[c] # <<>>
    /\ chanBuf[c][1].id = b

\* The line of event a comes before the line of event b in the log.
LoggedBefore(a, b) ==
    \E i, j \in 1..Len(LogIds) : i < j /\ LogIds[i] = a /\ LogIds[j] = b

\* C39: two subscribers that both received the same two events received
\* them in the same order, and when both events have their line in the log,
\* that is the order of the two lines.
C39_ObserversAgree ==
    \A a, b \in 1..MaxEvents :
        \A c \in clients :
            ReceivedBefore(c, a, b) =>
                /\ \A d \in clients : ~ReceivedBefore(d, b, a)
                /\ ~LoggedBefore(b, a)

\* ------------------------------------------------------------------ registered names and their repositories
\* No command is running.
Quiescent == \A p \in Procs : ~Running(registry.cmd[p])

\* C40: when the commands have ended, every entry of the mappings file has
\* its bare repository in the repos directory, whatever add and remove
\* commands ran, failed ones included.
C40_RegisteredHaveBare ==
    (registry.pc = "on" /\ Quiescent) =>
        \A i \in 1..Len(registry.file) : registry.file[i].barePath \in registry.disk

====
